---- MODULE Spec2Model ----
(***************************************************************************)
(* ADRVE edge pipeline: capture -> frame queue -> YOLO worker -> detection *)
(* channel -> MQTT publisher, and the cloud-command callback with the      *)
(* display loop that reads and prunes the stored commands.                 *)
(*                                                                         *)
(* The repository holds several near-identical edge scripts; `variant`     *)
(* selects which one runs:                                                 *)
(*   "headless"  src/edge-device-headless.py          (latest-value slot)  *)
(*   "videofile" src/edge-device-video-file-fixed.py  (detection queue)    *)
(*   "script"    src/edge-device-script.py            (display, no limit)  *)
(*   "optimized" src/archive/edge-device-optimized-fixed.py                *)
(*               (as "videofile", with its own publisher and egress)       *)
(*                                                                         *)
(* Time is counted in tenths of a second (time.time() is `now`).           *)
(***************************************************************************)
EXTENDS Integers, Sequences, FiniteSets, TLC

\* ------------------------------------------------------------------ bounds
\* time.time() when the threads start (any value past every interval, as the
\* epoch clock is: the first interval checks against 0 pass)
StartTime == 40
\* ticks of the clock and frames from the source, per specification
Horizon == 10
TicksCmd == 3
FramesCmd == 1
MaxFrames == 12
TicksBuf == 2
TicksWork == 3
FramesWork == 2
FramesFilter == 1
MaxBoxes == 3
TicksPub == 2
FramesPub == 2
FramesMain == 1
\* transport publish calls recorded in a run
MaxPublished == 2

\* cloud service: frames taken, objects per answer, text tokens either side
CloudFrames == 2
MaxObjects == 2
MaxText == 1
TicksCloud == 1

\* detection channel: frames captured after the start
FramesChan == 2
TicksChan == 3

\* command messages of any shape: ticks and frames
TicksMsg == 1
FramesMsg == 1
\* undecodable command messages recorded in a run
MaxCommandErrors == 1

\* script.py: frames captured after the start
FramesScript == 4

\* detections in a batch sent to the topic monitor
MaxJsonDetections == 2

\* ------------------------------------------------------- program constants
\* frame_queue = queue.Queue(maxsize=10)
FRAME_QUEUE_MAXSIZE == 10
\* detection_queue = queue.Queue(maxsize=10)   (video-file variant)
DETECTION_QUEUE_MAXSIZE == 10
\* YOLO_PROCESSING_INTERVAL = 0.2 s
YOLO_PROCESSING_INTERVAL == 2
\* MQTT_PUBLISH_INTERVAL = 1.0 s
MQTT_PUBLISH_INTERVAL == 10
\* CONFIDENCE_THRESHOLD = 0.3, in hundredths
CONFIDENCE_THRESHOLD == 30
\* "Display recent commands (last 3 seconds)"
COMMAND_DISPLAY_AGE == 30
\* "... and confidence > 0.7", in hundredths
CLOUD_CONFIDENCE == 70
\* the types send_command_to_edge stops for
CRITICAL_TYPES == {"human", "person", "pedestrian", "animal", "dog", "cat"}
\* topic names: the prefix, the edge's thing name, the cloud's device id
IOT_TOPIC_PREFIX == "adrve"
IOT_THING_NAME == "adrve_edge"
DEVICE_ID == "adrve-edge-device"
\* max_retries = 10 in the notification-setup handler
max_retries == 10
\* time.sleep(1) after an exception in a worker loop
ERROR_BACKOFF == 10
\* time.sleep(0.1) at the end of a publisher iteration
PUBLISH_PAUSE == 1
\* thread.join(timeout=2.0)
JOIN_TIMEOUT == 20

CLASSES_OF_INTEREST == {0, 1, 2, 3, 5, 6, 7, 16, 17, 18}

Variants == {"headless", "videofile", "script"}
AllVariants == Variants \cup {"optimized"}

VARIABLES
    variant,                  \* which edge script runs
    now,                      \* time.time(), tenths of a second
    running,                  \* global running flag
    cloud_commands,           \* dict timestamp -> payload
    cc_other,                 \* the items of cloud_commands under a key that is
                              \* not a number
    cc_errors,                \* log: "Error processing command" lines printed
    frame_queue,              \* queue.Queue(maxsize=10) of (frame, timestamp)
    frame_count,              \* capture loop's frame counter
    accepted,                 \* log: frames put into frame_queue, in order
    taken,                    \* log: frames the worker got from frame_queue
    c_pc,                     \* capture loop position
    c_frame,                  \* frame read by the capture loop, to be offered
    w_pc,                     \* detection worker position
    w_current_time,           \* worker's current_time local
    w_frame,                  \* frame the worker dequeued
    w_wake,                   \* end of the worker's time.sleep
    last_yolo_process_time,
    latest_detection,         \* headless: latest-value slot (None or a batch)
    detection_queue,          \* videofile / script: queue of batches
    w_results,                \* results the model returned for w_frame
    emitted,                  \* the worker's last emission: (start, time, batch)
    p_pc,                     \* publisher position
    p_current_time,           \* publisher's current_time local
    p_wake,                   \* end of the publisher's time.sleep
    last_mqtt_publish_time,
    published,                \* log of client.publish calls on the detection topic
    publish_failed,           \* log: time of the last client.publish that raised
    m_pc,                     \* main thread position
    iot,                      \* iot_client: "none", "connected", "disconnected"
    kvs_launched,             \* log: egress strategies launched, in order
    kvs_probed,               \* log: was the child alive at each probe
    kvs_env,                  \* log: which credential resolution each launch got
    kvs_alive,                \* the launched egress child processes still running
    kvs_process,              \* start_kvs_producer's result: 0 (None) or strategy
    kvs_terminated,           \* kvs_process.terminate() was called
    started,                  \* stage threads main has started
    m_join,                   \* number of thread.join calls that returned
    m_wake,                   \* deadline of the join in progress
    cl_pc,                    \* cloud service position
    cl_mode,                  \* "continuous", "single" (one frame) or "lambda"
    cl_frames,                \* frames the cloud service has taken
    cl_response,              \* what the model call gave for the current frame
    cl_detection,             \* detection_data of the current frame
    cl_last,                  \* log: outcome of send_command_to_edge for it
    cl_commands,              \* log of publishes on the command topic
    cl_timestamp,             \* timestamp taken for the current frame
    cl_store,                 \* log: outcome of store_frame_and_detection
    cl_s3,                    \* frame ids with a frame in the object store
    cl_db,                    \* items of the detection table (their keys)
    cl_device_id,             \* device_id handed to send_command_to_edge
    j_batch,                  \* a detection batch about to be published
    j_wire,                   \* its JSON text on the detection topic
    j_payload,                \* what the topic monitor parsed from the text
    ns_pc,                    \* notification-setup handler position
    ns_event,                 \* the custom resource event it was invoked with
    retries,                  \* the handler's retries counter
    ns_response,              \* the handler's response: the stream status of
                              \* the last describe_stream that returned
    ns_checks,                \* log: describe_stream calls made
    ns_sent                   \* log: statuses passed to cfnresponse.send

cmdVars  == <<cloud_commands, cc_other, cc_errors>>
capVars  == <<frame_count, c_pc, c_frame, accepted>>
workVars == <<w_pc, w_current_time, w_frame, w_wake, w_results,
              last_yolo_process_time, emitted, taken>>
chanVars == <<latest_detection, detection_queue>>
pubVars  == <<p_pc, p_current_time, p_wake, last_mqtt_publish_time, published,
             publish_failed>>
egressVars == <<kvs_launched, kvs_probed, kvs_env, kvs_alive, kvs_process,
                kvs_terminated>>
mainVars == <<m_pc, iot, egressVars, started, m_join, m_wake>>
jsonVars == <<j_batch, j_wire, j_payload>>
notifyVars == <<ns_pc, ns_event, retries, ns_response, ns_checks, ns_sent>>
\* everything outside the edge process: the cloud service, the topic monitor
cloudVars == <<cl_pc, cl_mode, cl_frames, cl_response, cl_detection, cl_last,
               cl_commands, cl_timestamp, cl_store, cl_s3, cl_db,
               cl_device_id, jsonVars, notifyVars>>
vars == <<cloudVars, mainVars, variant, now, running, cmdVars, frame_queue, frame_count,
          accepted, taken, c_pc,
          c_frame, w_pc, w_current_time, w_frame, w_wake, w_results,
          last_yolo_process_time, latest_detection, detection_queue,
          emitted, p_pc, p_current_time, p_wake, last_mqtt_publish_time,
          published, publish_failed>>

None == [none |-> TRUE]

\* ------------------------------------------------------------------ inputs
\* values of payload['command'] that reach the callback
CommandValues == {"stop", "resume", "status"}
\* values of payload['timestamp'] that reach the callback
\* (a command can arrive late, up to just under 3 s old, or from a clock ahead)
CommandTimestamps == {StartTime - 29, StartTime - 28, StartTime + 1}
Payloads == [command : CommandValues, timestamp : CommandTimestamps]

\* the module-level globals and the locals of the threads before they run
InitState ==
    /\ now = StartTime
    /\ running = TRUE
    /\ cloud_commands = [t \in {} |-> None]
    /\ cc_other = {}
    /\ cc_errors = 0
    /\ frame_queue = << >>
    /\ frame_count = 0
    /\ accepted = << >>
    /\ taken = << >>
    /\ c_pc = "read"
    /\ c_frame = None
    /\ w_pc = "loop"
    /\ w_current_time = 0
    /\ w_frame = None
    /\ w_wake = 0
    /\ w_results = << >>
    /\ last_yolo_process_time = 0
    /\ latest_detection = None
    /\ detection_queue = << >>
    /\ emitted = None
    /\ p_pc = "loop"
    /\ p_current_time = 0
    /\ p_wake = 0
    /\ last_mqtt_publish_time = 0
    /\ published = << >>
    /\ publish_failed = 0

\* the stage threads of each script ("mqtt" only with an IoT client)
StageThreads ==
    CASE variant = "headless" -> {"yolo", "capture", "mqtt"}
      [] variant = "script" -> {"yolo"}
      [] OTHER -> {"yolo", "mqtt"}

\* main has brought the pipeline up: IoT connected, first egress strategy
\* alive at its probe, threads started
MainStarted ==
    /\ m_pc = IF variant = "headless" THEN "wait" ELSE "capture"
    /\ iot = "connected"
    /\ kvs_launched = <<1>>
    /\ kvs_probed = <<TRUE>>
    /\ kvs_env = <<1>>
    /\ kvs_alive = {1}
    /\ kvs_process = 1
    /\ kvs_terminated = FALSE
    /\ started = StageThreads
    /\ m_join = 0
    /\ m_wake = 0

\* main() is entered: credentials are set up and the model is loaded
MainAtStart ==
    /\ m_pc = "begin"
    /\ iot = "none"
    /\ kvs_launched = << >>
    /\ kvs_probed = << >>
    /\ kvs_env = << >>
    /\ kvs_alive = {}
    /\ kvs_process = 0
    /\ kvs_terminated = FALSE
    /\ started = {}
    /\ m_join = 0
    /\ m_wake = 0

\* nothing on its way to the topic monitor
JsonOff ==
    /\ j_batch = None
    /\ j_wire = None
    /\ j_payload = None

\* the notification-setup handler has not been invoked
NotifyOff ==
    /\ ns_pc = "off"
    /\ ns_event = None
    /\ retries = 0
    /\ ns_response = None
    /\ ns_checks = 0
    /\ ns_sent = << >>

\* the cloud service, not running / started in one of its modes
CloudOff ==
    /\ cl_pc = "off"
    /\ cl_mode = "continuous"
    /\ cl_frames = 0
    /\ cl_response = None
    /\ cl_detection = None
    /\ cl_last = None
    /\ cl_commands = << >>
    /\ cl_timestamp = 0
    /\ cl_store = None
    /\ cl_s3 = {}
    /\ cl_db = {}
    /\ cl_device_id = DEVICE_ID
    /\ JsonOff
    /\ NotifyOff

CloudModes == {"continuous", "single", "lambda"}

\* f"{IOT_TOPIC_PREFIX}/commands/{IOT_THING_NAME}", the topic the edge
\* scripts subscribe command_callback to
command_topic == <<IOT_TOPIC_PREFIX, "commands", IOT_THING_NAME>>

\* event.get('deviceId') of a Lambda invocation
EventDeviceIds == {IOT_THING_NAME, DEVICE_ID}

CloudAtStart ==
    /\ cl_pc = "frame"
    /\ cl_mode \in CloudModes
    /\ cl_frames = 0
    /\ cl_response = None
    /\ cl_detection = None
    /\ cl_last = None
    /\ cl_commands = << >>
    /\ cl_timestamp = 0
    /\ cl_store = None
    /\ cl_s3 = {}
    /\ cl_db = {}
    /\ cl_device_id \in IF cl_mode = "lambda" THEN EventDeviceIds
                                               ELSE {DEVICE_ID}
    /\ JsonOff
    /\ NotifyOff

Init == variant \in Variants /\ InitState /\ MainStarted /\ CloudOff

InitAll == variant \in AllVariants /\ InitState /\ MainStarted /\ CloudOff

\* batches of earlier frames wait in the detection channel: none, one less
\* than its capacity, or as many as its capacity
QueuedBatches(n) ==
    [k \in 1..n |->
        [frame |-> k,
         data |-> [timestamp |-> StartTime - 1, detections |-> << >>,
                   source |-> "edge"]]]

InitChan ==
    /\ variant \in AllVariants
    /\ now = StartTime
    /\ running = TRUE
    /\ cloud_commands = [t \in {} |-> None]
    /\ cc_other = {}
    /\ cc_errors = 0
    /\ frame_queue = << >>
    /\ frame_count = DETECTION_QUEUE_MAXSIZE
    /\ accepted = << >>
    /\ taken = << >>
    /\ c_pc = "read"
    /\ c_frame = None
    /\ w_pc = "loop"
    /\ w_current_time = 0
    /\ w_frame = None
    /\ w_wake = 0
    /\ w_results = << >>
    /\ last_yolo_process_time = 0
    /\ latest_detection = None
    /\ detection_queue \in
          IF variant = "headless" THEN {<< >>}
          ELSE {QueuedBatches(n) :
                   n \in {0, DETECTION_QUEUE_MAXSIZE - 1,
                          DETECTION_QUEUE_MAXSIZE}}
    /\ emitted = None
    /\ p_pc = "loop"
    /\ p_current_time = 0
    /\ p_wake = 0
    /\ last_mqtt_publish_time = 0
    /\ published = << >>
    /\ publish_failed = 0
    /\ MainStarted
    /\ CloudOff

\* script.py after the capture loop has buffered frames the worker has not
\* taken yet: one less than the capacity of frame_queue, or as many as its
\* capacity
QueuedFrames(n) == [k \in 1..n |-> [seq |-> k, timestamp |-> StartTime - 1]]

InitScript ==
    /\ variant = "script"
    /\ now = StartTime
    /\ running = TRUE
    /\ cloud_commands = [t \in {} |-> None]
    /\ cc_other = {}
    /\ cc_errors = 0
    /\ \E n \in {FRAME_QUEUE_MAXSIZE - 1, FRAME_QUEUE_MAXSIZE} :
          /\ frame_queue = QueuedFrames(n)
          /\ frame_count = n
          /\ accepted = [k \in 1..n |-> k]
    /\ taken = << >>
    /\ c_pc = "read"
    /\ c_frame = None
    /\ w_pc = "loop"
    /\ w_current_time = 0
    /\ w_frame = None
    /\ w_wake = 0
    /\ w_results = << >>
    /\ last_yolo_process_time = 0
    /\ latest_detection = None
    /\ detection_queue = << >>
    /\ emitted = None
    /\ p_pc = "loop"
    /\ p_current_time = 0
    /\ p_wake = 0
    /\ last_mqtt_publish_time = 0
    /\ published = << >>
    /\ publish_failed = 0
    /\ MainStarted
    /\ CloudOff

InitMain == variant \in AllVariants /\ InitState /\ MainAtStart /\ CloudOff

InitCloud == variant = "headless" /\ InitState /\ MainStarted /\ CloudAtStart

\* ------------------------------------------------------------------- clock
\* the ends of the pending long time.sleep calls (more than a tick away) and
\* the moment the next publish falls due, as far as the clock can still reach
PendingWakes ==
    {t \in {w_wake, p_wake, last_mqtt_publish_time + MQTT_PUBLISH_INTERVAL} :
        now + 1 < t /\ t <= StartTime + Horizon}

\* time passes, by one tick or up to the end of a pending time.sleep; every
\* time.time() call reads `now`
Tick(maxTicks) ==
    /\ \/ /\ now < StartTime + maxTicks
          /\ now' = now + 1
       \/ \E t \in PendingWakes : now' = t
    /\ UNCHANGED <<cloudVars, mainVars, variant, running, cmdVars, frame_queue, capVars,
                   workVars, chanVars, pubVars>>

\* -------------------------------------------------------- command listener
\* cloud_commands[timestamp] = payload
StoreCommand(cc, payload) ==
    [t \in DOMAIN cc \cup {payload.timestamp} |->
        IF t = payload.timestamp THEN payload ELSE cc[t]]

\* setup_iot_subscriptions.command_callback, json-decodable payload
command_callback(payload) ==
    /\ cloud_commands' = StoreCommand(cloud_commands, payload)
    /\ UNCHANGED <<cc_other, cc_errors, cloudVars, mainVars, variant, now, running, frame_queue, capVars, workVars,
                   chanVars, pubVars>>

\* messages on the command topic that are not a command with a numeric
\* timestamp: text that is not JSON, and JSON objects whose timestamp is
\* missing or is a string
MalformedMessages ==
    {[kind |-> "not_json", command |-> "stop"]}
    \cup [kind : {"no_timestamp", "text_timestamp"}, command : CommandValues]

\* cloud_commands[timestamp] = payload for a key that is not a number
StoreOther(co, key, command) ==
    {item \in co : item.key # key} \cup {[key |-> key, command |-> command]}

\* payload.get('timestamp') is None when the key is missing; the headless
\* script has payload.get('timestamp', time.time())
DefaultsTimestamp == variant = "headless"

DecodesAnything(message) == TRUE

\* json.loads(message.payload.decode('utf-8')) returns
Decodes(message) == message.kind # "not_json"

\* command_callback on such a message: when the decoding raises, the except
\* clause prints the error and the callback returns; otherwise the payload
\* is stored under the key payload.get('timestamp') gave
command_callback_malformed(message) ==
    /\ IF ~Decodes(message)
       THEN /\ cc_errors < MaxCommandErrors
            /\ cc_errors' = cc_errors + 1
            /\ UNCHANGED <<cloud_commands, cc_other>>
       ELSE IF message.kind = "text_timestamp"
       THEN /\ cc_other' = StoreOther(cc_other, "text", message.command)
            /\ UNCHANGED <<cloud_commands, cc_errors>>
       ELSE IF DefaultsTimestamp
       THEN /\ cloud_commands' =
                  StoreCommand(cloud_commands,
                      [command |-> message.command, timestamp |-> now])
            /\ UNCHANGED <<cc_other, cc_errors>>
       ELSE /\ cc_other' = StoreOther(cc_other, "None", message.command)
            /\ UNCHANGED <<cloud_commands, cc_errors>>
    /\ UNCHANGED <<cloudVars, mainVars, variant, now, running, frame_queue,
                   capVars, workVars, chanVars, pubVars>>

\* ------------------------------------------------------------ display loop
HasDisplay == variant \in {"script", "videofile", "optimized"}

\* the display loop shows a stored command while time.time() - ts < 3
\* and removes it otherwise
IsRecent(ts) == now - ts < COMMAND_DISPLAY_AGE

\* "Show any cloud commands": the stop commands drawn on the frame
StopsDisplayed(cc) ==
    {ts \in DOMAIN cc : IsRecent(ts) /\ cc[ts].command = "stop"}

\* "Remove old commands": cloud_commands.pop(ts, None) for every old entry
PruneCommands(cc) ==
    [ts \in {t \in DOMAIN cc : IsRecent(t)} |-> cc[ts]]

\* ------------------------------------------------------------ capture loop
QueuePutFront(q, item) == <<item>> \o q

\* Queue.put: the item goes behind the ones already queued
QueuePut(q, item) == Append(q, item)

FrameQueueNeverFull == FALSE

\* frame_queue.full()
FrameQueueFull == Len(frame_queue) >= FRAME_QUEUE_MAXSIZE

AfterOffer == IF HasDisplay THEN "display" ELSE "read"

\* ret, frame = cap.read(); timestamp = time.time(); frame_count += 1
\* (a failed read only sleeps 0.1 s and tries again: no state changes)
CaptureRead(maxFrames) ==
    /\ c_pc = "read"
    /\ running
    /\ frame_count < maxFrames
    /\ frame_count' = frame_count + 1
    /\ c_frame' = [seq |-> frame_count + 1, timestamp |-> now]
    /\ c_pc' = "offer"
    /\ UNCHANGED <<cloudVars, mainVars, variant, now, running, cmdVars, frame_queue,
                   accepted, workVars, chanVars, pubVars>>

\* if not frame_queue.full(): ... else: skip this frame
CaptureOffer ==
    /\ c_pc = "offer"
    /\ IF FrameQueueFull
       THEN /\ c_pc' = AfterOffer
            /\ c_frame' = None
       ELSE /\ c_pc' = "put"
            /\ UNCHANGED c_frame
    /\ UNCHANGED <<cloudVars, mainVars, variant, now, running, cmdVars, frame_queue,
                   frame_count, accepted, workVars, chanVars, pubVars>>

\* frame_queue.put((frame.copy(), timestamp)): Queue.put waits while the
\* queue holds maxsize items
CapturePut ==
    /\ c_pc = "put"
    /\ Len(frame_queue) < FRAME_QUEUE_MAXSIZE
    /\ frame_queue' = QueuePut(frame_queue, c_frame)
    /\ accepted' = Append(accepted, c_frame.seq)
    /\ c_frame' = None
    /\ c_pc' = AfterOffer
    /\ UNCHANGED <<cloudVars, mainVars, variant, now, running, cmdVars, frame_count,
                   workVars, chanVars, pubVars>>

\* script.py: _, detection_data = detection_queue.get()
DisplayDequeues == variant = "script"

QueueKept(q) == q

\* the queue after Queue.get took its oldest item
QueueAfterGet(q) == Tail(q)

\* "Add detection boxes if available": script.py dequeues the batch,
\* the video-file variant goes on to peek at the head of the queue
CaptureDisplay ==
    /\ c_pc = "display"
    /\ IF detection_queue = << >>
       THEN /\ c_pc' = "commands"
            /\ UNCHANGED detection_queue
       ELSE IF DisplayDequeues
       THEN /\ detection_queue' = QueueAfterGet(detection_queue)
            /\ c_pc' = "commands"
       ELSE /\ c_pc' = "peek"
            /\ UNCHANGED detection_queue
    /\ UNCHANGED <<cloudVars, mainVars, variant, now, running, cmdVars, frame_queue,
                   frame_count, c_frame, accepted, workVars,
                   latest_detection, pubVars>>

\* detection_data = list(detection_queue.queue)[0][1]; an IndexError reaches
\* the loop's except clause, which clears running
CapturePeek ==
    /\ c_pc = "peek"
    /\ IF detection_queue = << >>
       THEN /\ running' = FALSE
            /\ c_pc' = "done"
       ELSE /\ c_pc' = "commands"
            /\ UNCHANGED running
    /\ UNCHANGED <<cloudVars, mainVars, variant, now, cmdVars, frame_queue, frame_count,
                   c_frame, accepted, workVars, chanVars, pubVars>>

\* "Show any cloud commands" ... "Remove old commands", then imshow and the
\* exit key: key == ord('q') clears running and leaves the loop
\* time.time() - ts raises TypeError for a key that is not a number; the
\* items that come before that key in the dict have been handled by then,
\* and the loop's except clause clears running
CaptureCommands(quit) ==
    /\ c_pc = "commands"
    /\ IF cc_other # {}
       THEN /\ \E handled \in SUBSET DOMAIN cloud_commands :
                 cloud_commands' =
                     [ts \in {t \in DOMAIN cloud_commands :
                                 t \in handled => IsRecent(t)}
                        |-> cloud_commands[ts]]
            /\ running' = FALSE
            /\ c_pc' = "done"
       ELSE /\ cloud_commands' = PruneCommands(cloud_commands)
            /\ IF quit
               THEN /\ running' = FALSE
                    /\ c_pc' = "done"
               ELSE /\ c_pc' = "read"
                    /\ UNCHANGED running
    /\ UNCHANGED <<cc_other, cc_errors, cloudVars, mainVars, variant, now, frame_queue, frame_count, c_frame, accepted, workVars, chanVars, pubVars>>

\* while running: ... is left once the flag is cleared
CaptureExit ==
    /\ c_pc = "read"
    /\ ~running
    /\ c_pc' = "done"
    /\ UNCHANGED <<cloudVars, mainVars, variant, now, running, cmdVars, frame_queue,
                   frame_count, c_frame, accepted, workVars, chanVars, pubVars>>

\* an OpenCV call of the loop body raises: except Exception: running = False
CaptureRaises ==
    /\ c_pc = "offer"
    /\ running' = FALSE
    /\ c_frame' = None
    /\ c_pc' = "done"
    /\ UNCHANGED <<cloudVars, mainVars, variant, now, cmdVars, frame_queue,
                   frame_count, accepted, workVars, chanVars, pubVars>>

\* ------------------------------------------------------- detection worker
HasInterval == variant \in {"headless", "videofile", "optimized"}

KeepAtThreshold(box) ==
    box.class_id \in CLASSES_OF_INTEREST /\ box.confidence >= CONFIDENCE_THRESHOLD

\* if cls in CLASSES_OF_INTEREST and conf > CONFIDENCE_THRESHOLD
KeepDetection(box) ==
    box.class_id \in CLASSES_OF_INTEREST /\ box.confidence > CONFIDENCE_THRESHOLD

\* for r in results: for box in boxes: ... detections.append(detection)
FilterDetections(results) == SelectSeq(results, KeepDetection)

\* {"timestamp": timestamp, "detections": detections, "source": "edge"}
DetectionResult(frame, results) ==
    [timestamp |-> frame.timestamp,
     detections |-> FilterDetections(results),
     source |-> "edge"]

IntervalIgnored == TRUE

\* the interval test at the head of the worker loop
IntervalElapsed ==
    ~HasInterval \/ now - last_yolo_process_time >= YOLO_PROCESSING_INTERVAL

FrameQueueNeverEmpty == FALSE

\* frame_queue.empty()
FrameQueueEmpty == frame_queue = << >>

\* current_time = time.time(); interval test; if not frame_queue.empty()
\* (when either test fails the iteration only sleeps 0.01 s)
WorkerCheck ==
    /\ w_pc = "loop"
    /\ running
    /\ IntervalElapsed
    /\ ~FrameQueueEmpty
    /\ w_current_time' = now
    /\ w_pc' = "get"
    /\ UNCHANGED <<cloudVars, mainVars, variant, now, running, cmdVars, frame_queue, capVars,
                   w_frame, w_wake, w_results, last_yolo_process_time,
                   emitted, taken, chanVars, pubVars>>

QueueGetNewest(q) == q[Len(q)]

\* the item Queue.get returns: the oldest one
QueueGet(q) == Head(q)

\* frame_data = frame_queue.get(): Queue.get waits while the queue is empty
WorkerGet ==
    /\ w_pc = "get"
    /\ frame_queue # << >>
    /\ w_frame' = QueueGet(frame_queue)
    /\ frame_queue' = Tail(frame_queue)
    /\ taken' = Append(taken, w_frame'.seq)
    /\ w_pc' = "infer"
    /\ UNCHANGED <<cloudVars, mainVars, variant, now, running, cmdVars, capVars,
                   w_current_time, w_wake, w_results,
                   last_yolo_process_time, emitted, chanVars, pubVars>>

\* detection_queue = queue.Queue(maxsize=10); script.py: queue.Queue()
HasBoundedChannel == variant \in {"videofile", "optimized"}

DetectionQueueNeverFull == FALSE

\* detection_queue.full()
DetectionQueueFull == Len(detection_queue) >= DETECTION_QUEUE_MAXSIZE

\* detection_queue.put(...) would wait: the bounded queue holds maxsize items
\* and the full() test did not keep the worker from calling put
PutWaits ==
    /\ HasBoundedChannel
    /\ ~DetectionQueueFull
    /\ Len(detection_queue) >= DETECTION_QUEUE_MAXSIZE

\* the batch goes to the detection channel of the variant
OfferBatch(item) ==
    CASE variant = "headless" ->
            /\ latest_detection' = item.data
            /\ UNCHANGED detection_queue
      [] HasBoundedChannel ->
            /\ detection_queue' =
                  IF DetectionQueueFull \/ PutWaits
                  THEN detection_queue
                  ELSE QueuePut(detection_queue, item)
            /\ UNCHANGED latest_detection
      [] OTHER ->
            /\ detection_queue' = QueuePut(detection_queue, item)
            /\ UNCHANGED latest_detection

\* results = model(frame, conf=...) returns; filter; emit the batch;
\* last_yolo_process_time = current_time
WorkerInfer(results) ==
    /\ w_pc = "infer"
    /\ w_results' = results
    /\ OfferBatch([frame |-> w_frame.seq,
                   data |-> DetectionResult(w_frame, results)])
    /\ last_yolo_process_time' =
          IF HasInterval THEN w_current_time ELSE last_yolo_process_time
    /\ emitted' = [start |-> w_current_time, time |-> now, frame |-> w_frame.seq,
                   batch |-> DetectionResult(w_frame, results),
                   prev |-> IF emitted = None THEN None
                            ELSE [start |-> emitted.start, time |-> emitted.time]]
    /\ w_frame' = None
    /\ w_pc' = IF PutWaits THEN "put" ELSE "loop"
    /\ UNCHANGED <<cloudVars, mainVars, variant, now, running, cmdVars, frame_queue, capVars,
                   w_current_time, w_wake, taken, pubVars>>

\* an inference error that is not caught ends the thread
WorkerInferKills ==
    /\ w_pc = "infer"
    /\ w_pc' = "done"
    /\ UNCHANGED <<cloudVars, mainVars, variant, now, running, cmdVars, frame_queue, capVars,
                   w_current_time, w_frame, w_wake, w_results,
                   last_yolo_process_time, emitted, taken, chanVars, pubVars>>

\* model(frame) raises: except Exception: print; time.sleep(1)
WorkerInferRaises ==
    /\ w_pc = "infer"
    /\ w_pc' = "backoff"
    /\ w_wake' = now + ERROR_BACKOFF
    /\ UNCHANGED <<cloudVars, mainVars, variant, now, running, cmdVars, frame_queue, capVars,
                   w_current_time, w_frame, w_results,
                   last_yolo_process_time, emitted, taken, chanVars, pubVars>>

\* the sleep after an error is over; back to "while running"
WorkerBackoffOver ==
    /\ w_pc = "backoff"
    /\ now >= w_wake
    /\ w_pc' = "loop"
    /\ UNCHANGED <<cloudVars, mainVars, variant, now, running, cmdVars, frame_queue, capVars,
                   w_current_time, w_frame, w_wake, w_results,
                   last_yolo_process_time, emitted, taken, chanVars, pubVars>>

\* while running: is left once the flag is cleared
WorkerExit ==
    /\ w_pc = "loop"
    /\ ~running
    /\ w_pc' = "done"
    /\ UNCHANGED <<cloudVars, mainVars, variant, now, running, cmdVars, frame_queue, capVars,
                   w_current_time, w_frame, w_wake, w_results,
                   last_yolo_process_time, emitted, taken, chanVars, pubVars>>

\* ----------------------------------------------------- telemetry publisher
HasPublisher == variant \in {"headless", "videofile", "optimized"}

\* client.publish(topic, json.dumps(detection_data), 0) returned; the log
\* also notes the frame the batch was made from
Publish(log, item) ==
    Append(log, [data |-> item.data, time |-> now, frame |-> item.frame])

\* the batch in the latest-value slot, with the frame it was made from
LatestItem == [frame |-> emitted.frame, data |-> latest_detection]

PublishErrorEndsThread == "done"

\* where the publisher is after client.publish raised: the exception is
\* caught inside the loop, which goes on with a sleep
AfterPublishError == "sleep"

\* one pass of "while running:" in mqtt_publish_thread, up to its sleep or to
\* the dequeue of its else branch; `ok` tells whether client.publish returns
PublisherTick(ok) ==
    /\ p_pc = "loop"
    /\ running
    /\ HasPublisher
    /\ Len(published) < MaxPublished
    /\ IF now - last_mqtt_publish_time < MQTT_PUBLISH_INTERVAL
       THEN \* not due: time.sleep(0.1)
            /\ p_pc' = "sleep"
            /\ p_wake' = now + PUBLISH_PAUSE
            /\ UNCHANGED <<last_mqtt_publish_time, published, publish_failed,
                           chanVars>>
       ELSE IF variant = "headless"
       THEN IF latest_detection = None
            THEN /\ p_pc' = "sleep"
                 /\ p_wake' = now + PUBLISH_PAUSE
                 /\ UNCHANGED <<last_mqtt_publish_time, published,
                                publish_failed, chanVars>>
            ELSE IF ok
            THEN /\ published' = Publish(published, LatestItem)
                 /\ last_mqtt_publish_time' = now
                 /\ p_pc' = "sleep"
                 /\ p_wake' = now + PUBLISH_PAUSE
                 /\ UNCHANGED <<publish_failed, chanVars>>
            ELSE \* publish raises: outer except, time.sleep(1)
                 /\ p_pc' = AfterPublishError
                 /\ p_wake' = now + ERROR_BACKOFF
                 /\ publish_failed' = now
                 /\ UNCHANGED <<last_mqtt_publish_time, published, chanVars>>
       ELSE IF detection_queue = << >>
       THEN IF variant = "videofile"
            THEN \* "No detections to publish": the else branch calls
                 \* detection_queue.get() on the empty queue
                 /\ p_pc' = "empty_get"
                 /\ UNCHANGED <<p_wake, last_mqtt_publish_time, published,
                                publish_failed, chanVars>>
            ELSE /\ p_pc' = "sleep"
                 /\ p_wake' = now + PUBLISH_PAUSE
                 /\ UNCHANGED <<last_mqtt_publish_time, published,
                                publish_failed, chanVars>>
       ELSE \* _, detection_data = detection_queue.get()
            /\ detection_queue' = Tail(detection_queue)
            /\ UNCHANGED latest_detection
            /\ IF ok
               THEN /\ published' = Publish(published, Head(detection_queue))
                    /\ last_mqtt_publish_time' = now
                    /\ p_pc' = "sleep"
                    /\ p_wake' = now + PUBLISH_PAUSE
                    /\ UNCHANGED publish_failed
               ELSE IF variant = "videofile"
               THEN \* inner try/except: the pass goes on to its end
                    /\ last_mqtt_publish_time' = now
                    /\ p_pc' = AfterPublishError
                    /\ p_wake' = now + PUBLISH_PAUSE
                    /\ publish_failed' = now
                    /\ UNCHANGED published
               ELSE \* outer except, time.sleep(1)
                    /\ p_pc' = AfterPublishError
                    /\ p_wake' = now + ERROR_BACKOFF
                    /\ publish_failed' = now
                    /\ UNCHANGED <<last_mqtt_publish_time, published>>
    /\ p_current_time' = IF p_pc' = "empty_get" THEN now ELSE p_current_time
    /\ UNCHANGED <<cloudVars, mainVars, variant, now, running, cmdVars, frame_queue, capVars,
                   workVars>>

\* the else branch's detection_queue.get() returns once the worker has put a
\* batch; the batch is published and last_mqtt_publish_time = current_time
PublisherEmptyGet(ok) ==
    /\ p_pc = "empty_get"
    /\ detection_queue # << >>
    /\ detection_queue' = Tail(detection_queue)
    /\ IF ok
       THEN /\ published' = Publish(published, Head(detection_queue))
            /\ last_mqtt_publish_time' = p_current_time
            /\ p_wake' = now + PUBLISH_PAUSE
            /\ p_pc' = "sleep"
            /\ UNCHANGED publish_failed
       ELSE \* publish raises: outer except, time.sleep(1)
            /\ p_wake' = now + ERROR_BACKOFF
            /\ p_pc' = AfterPublishError
            /\ publish_failed' = now
            /\ UNCHANGED <<published, last_mqtt_publish_time>>
    /\ UNCHANGED <<cloudVars, mainVars, variant, now, running, cmdVars, frame_queue, capVars,
                   workVars, latest_detection, p_current_time>>

\* the publisher's time.sleep is over; back to "while running"
PublisherWake ==
    /\ p_pc = "sleep"
    /\ now >= p_wake
    /\ p_pc' = "loop"
    /\ UNCHANGED <<cloudVars, mainVars, variant, now, running, cmdVars, frame_queue, capVars,
                   workVars, chanVars, p_current_time, p_wake,
                   last_mqtt_publish_time, published, publish_failed>>

\* while running: is left once the flag is cleared
PublisherExit ==
    /\ p_pc = "loop"
    /\ ~running
    /\ p_pc' = "done"
    /\ UNCHANGED <<cloudVars, mainVars, variant, now, running, cmdVars, frame_queue, capVars,
                   workVars, chanVars, p_current_time, p_wake,
                   last_mqtt_publish_time, published, publish_failed>>

\* --------------------------------------------------------------- main
\* Ctrl+C: main's "except KeyboardInterrupt" clears running. In the display
\* variants the capture loop runs in the main thread and is left at once.
\* The headless main catches it around its wait loop and goes on to its
\* cleanup; anywhere else the outer handler ends main without cleanup
KeyboardInterrupt ==
    /\ running
    /\ running' = FALSE
    /\ c_pc' = IF HasDisplay THEN "done" ELSE c_pc
    /\ m_pc' = IF m_pc = "wait" THEN "cleanup" ELSE "interrupted"
    /\ UNCHANGED <<iot, egressVars, started, m_join, m_wake, variant, now,
                   cmdVars, frame_queue, frame_count, c_frame,
                   accepted, workVars, chanVars, pubVars, cloudVars>>

\* the other threads and the globals they work on
stageVars == <<cmdVars, frame_queue, capVars, workVars, chanVars,
               pubVars>>

\* script.py starts the detection thread before IoT and egress
MainBegin ==
    /\ m_pc = "begin"
    /\ started' = IF variant = "script" THEN {"yolo"} ELSE started
    /\ m_pc' = "iot"
    /\ UNCHANGED <<iot, egressVars, m_join, m_wake, variant, now, running,
                   stageVars,
                   cloudVars>>

\* iot_client = initialize_iot() (None when connect raises);
\* if iot_client: setup_iot_subscriptions(iot_client)
MainInitIot(ok) ==
    /\ m_pc = "iot"
    /\ iot' = IF ok THEN "connected" ELSE "none"
    /\ m_pc' = "kvs_launch"
    /\ UNCHANGED <<egressVars, started, m_join, m_wake, variant, now, running,
                   stageVars,
                   cloudVars>>

\* ------------------------------------------------------ egress supervisor
\* number of launch commands start_kvs_producer tries in turn
Strategies ==
    CASE variant = "headless" -> 3
      [] variant = "optimized" -> 2
      [] OTHER -> 1

\* subprocess.Popen of the next strategy; when the set-up or Popen raises,
\* start_kvs_producer returns None
\* env = os.environ.copy() with the credentials of session.get_credentials()
\* is built once, before the first Popen; the later Popen calls pass the
\* same env. Resolutions are numbered from 1.
LaunchEnv ==
    IF kvs_launched = << >> THEN 1 ELSE kvs_env[Len(kvs_env)]

MainLaunch(ok) ==
    /\ m_pc = "kvs_launch"
    /\ IF ok
       THEN /\ kvs_launched' = Append(kvs_launched, Len(kvs_launched) + 1)
            /\ kvs_env' = Append(kvs_env, LaunchEnv)
            /\ kvs_alive' = kvs_alive \cup {Len(kvs_launched) + 1}
            /\ m_pc' = "kvs_probe"
            /\ UNCHANGED kvs_process
       ELSE /\ kvs_process' = 0
            /\ m_pc' = "kvs_done"
            /\ UNCHANGED <<kvs_launched, kvs_env, kvs_alive>>
    /\ UNCHANGED <<iot, kvs_probed, kvs_terminated, started, m_join, m_wake,
                   variant, now, running, stageVars,
                   cloudVars>>

\* a child process exits on its own
ChildExits ==
    /\ \E child \in kvs_alive : kvs_alive' = kvs_alive \ {child}
    /\ UNCHANGED <<m_pc, iot, kvs_launched, kvs_probed, kvs_env, kvs_process,
                   kvs_terminated, started, m_join, m_wake, variant, now,
                   running, stageVars,
                   cloudVars>>

ProcessAssumedRunning == TRUE

ProcessAssumedExited == FALSE

\* process.poll() is None, process being the child launched last
ProcessRunning == Len(kvs_launched) \in kvs_alive

\* time.sleep(1); if process.poll() is not None: try the next strategy, or
\* return None after the last one; otherwise return process
MainProbe ==
    /\ m_pc = "kvs_probe"
    /\ kvs_probed' = Append(kvs_probed, Len(kvs_launched) \in kvs_alive)
    /\ IF ProcessRunning
       THEN /\ kvs_process' = Len(kvs_launched)
            /\ m_pc' = "kvs_done"
       ELSE IF Len(kvs_launched) < Strategies
       THEN /\ m_pc' = "kvs_launch"
            /\ UNCHANGED kvs_process
       ELSE /\ kvs_process' = 0
            /\ m_pc' = "kvs_done"
    /\ UNCHANGED <<iot, kvs_launched, kvs_env, kvs_alive, kvs_terminated, started,
                   m_join, m_wake, variant, now, running, stageVars,
                   cloudVars>>

\* ------------------------------------------------------------------- main
\* whether main checks the result of start_kvs_producer (script.py does not)
ChecksEgress == variant # "script"

\* if kvs_process is None: print("Failed to start KVS producer. Exiting.");
\* return
MainAfterEgress ==
    /\ m_pc = "kvs_done"
    /\ m_pc' = IF ChecksEgress /\ kvs_process = 0 THEN "exited"
               ELSE "start_threads"
    /\ UNCHANGED <<iot, egressVars, started, m_join, m_wake, variant, now,
                   running, stageVars,
                   cloudVars>>

\* "Start threads"; then the headless main waits and the others run the
\* capture loop themselves
MainStartThreads ==
    /\ m_pc = "start_threads"
    /\ started' = started \cup
          {t \in StageThreads : t = "mqtt" => iot = "connected"}
    /\ m_pc' = IF variant = "headless" THEN "wait" ELSE "capture"
    /\ UNCHANGED <<iot, egressVars, m_join, m_wake, variant, now, running,
                   stageVars,
                   cloudVars>>

\* headless: "while running: time.sleep(1)" is left once running is cleared
MainWait ==
    /\ m_pc = "wait"
    /\ ~running
    /\ m_pc' = "cleanup"
    /\ UNCHANGED <<iot, egressVars, started, m_join, m_wake, variant, now,
                   running, stageVars,
                   cloudVars>>

\* the capture loop run by main has returned: running = False
MainCaptureReturns ==
    /\ m_pc = "capture"
    /\ c_pc = "done"
    /\ running' = FALSE
    /\ m_pc' = "cleanup"
    /\ UNCHANGED <<iot, egressVars, started, m_join, m_wake, variant, now,
                   stageVars,
                   cloudVars>>

\* print("Shutting down..."); if kvs_process: kvs_process.terminate()
MainTerminate ==
    /\ m_pc = "cleanup"
    /\ kvs_terminated' = (kvs_process # 0)
    /\ m_pc' = "disconnect"
    /\ UNCHANGED <<iot, kvs_launched, kvs_probed, kvs_env, kvs_alive, kvs_process,
                   started, m_join, m_wake, variant, now, running, stageVars,
                   cloudVars>>

\* if iot_client: iot_client.disconnect() (returns within the SDK's
\* connect/disconnect timeout); script.py then prints "Shutdown complete"
MainDisconnect ==
    /\ m_pc = "disconnect"
    /\ iot' = IF iot = "connected" THEN "disconnected" ELSE iot
    /\ m_pc' = IF variant = "script" THEN "complete" ELSE "join"
    /\ UNCHANGED <<egressVars, started, m_join, m_wake, variant, now, running,
                   stageVars,
                   cloudVars>>

\* the list `threads`, in the order main appended the started threads
IsStarted(t) == t \in started
ThreadList ==
    SelectSeq(IF variant = "headless" THEN <<"yolo", "capture", "mqtt">>
              ELSE <<"yolo", "mqtt">>, IsStarted)

\* the thread's target function has returned
ThreadDone(t) ==
    CASE t = "yolo" -> w_pc = "done"
      [] t = "capture" -> c_pc = "done"
      [] OTHER -> p_pc = "done"

\* for thread in threads: thread.join(timeout=2.0)
MainJoinBegin ==
    /\ m_pc = "join"
    /\ IF m_join < Len(ThreadList)
       THEN /\ m_wake' = now + JOIN_TIMEOUT
            /\ m_pc' = "joining"
       ELSE /\ m_pc' = "complete"
            /\ UNCHANGED m_wake
    /\ UNCHANGED <<iot, egressVars, started, m_join, variant, now, running,
                   stageVars,
                   cloudVars>>

JoinWaitsForThread(t) == ThreadDone(t)

\* Thread.join(timeout) returns when the thread has ended or the time is up
JoinReturns(t) == ThreadDone(t) \/ now >= m_wake

MainJoinReturn ==
    /\ m_pc = "joining"
    /\ JoinReturns(ThreadList[m_join + 1])
    /\ m_join' = m_join + 1
    /\ m_pc' = "join"
    /\ UNCHANGED <<iot, egressVars, started, m_wake, variant, now, running,
                   stageVars,
                   cloudVars>>

\* with running cleared, time passes up to the end of a wait in progress
ShutdownWakes ==
    {t \in {IF m_pc = "joining" THEN m_wake ELSE 0,
            IF w_pc = "backoff" THEN w_wake ELSE 0,
            IF p_pc = "sleep" THEN p_wake ELSE 0} : t > now}

TickShutdown ==
    /\ ~running
    /\ \E t \in ShutdownWakes : now' = t
    /\ UNCHANGED <<cloudVars, mainVars, variant, running, stageVars>>

\* ------------------------------------------------------------ cloud service
\* A model response is a sequence of tokens: "t" is a piece of text without
\* braces, "{" and "}" are the braces, "o" is the text  "objects": [...]
\* of a detection list (the list itself is carried in the token).
TextTokens == {[ch |-> "t"], [ch |-> "{"], [ch |-> "}"]}

\* a person at and above the threshold, a type in capitals, an uncritical
\* type
CloudObjects ==
    {[type |-> "person", confidence |-> 70],
     [type |-> "person", confidence |-> 71],
     [type |-> "Dog", confidence |-> 71],
     [type |-> "car", confidence |-> 71]}

ObjectLists == UNION {[1..n -> CloudObjects] : n \in 0..MaxObjects}

\* entries of an object list that are not as the prompt asks: a field is
\* missing, or its value is of another JSON kind (type_is, confidence_is
\* name that kind; the value itself does not matter)
MalformedObjects ==
    {[confidence |-> 71],
     [type |-> "person"],
     [type_is |-> "number", confidence |-> 71],
     [type |-> "person", confidence_is |-> "string"],
     [type |-> "car", confidence_is |-> "string"]}

\* lists that mix such entries with a critical and an uncritical object
MixedLists ==
    UNION {[1..n -> {[type |-> "person", confidence |-> 71],
                     [type |-> "car", confidence |-> 71]}
                      \cup MalformedObjects] : n \in 0..MaxObjects}

\* text around the JSON object
Texts == UNION {[1..n -> TextTokens] : n \in 0..MaxText}

\* the object the model answers with, a cut-off object, or no object at all
Bodies ==
    {<<[ch |-> "{"], [ch |-> "o", objects |-> l], [ch |-> "}"]>> :
        l \in ObjectLists}
      \cup {<<[ch |-> "{"], [ch |-> "o", objects |-> << >>]>>, << >>}

\* invoke_model raises, or answers with some content
Responses ==
    {[raises |-> TRUE]}
      \cup {[raises |-> FALSE, content |-> pre \o body \o post] :
              pre \in Texts, body \in Bodies, post \in Texts}

\* str.find('{'), counted from 1; 0 when there is none (python: -1)
JsonStart(content) ==
    IF \E i \in 1..Len(content) : content[i].ch = "{"
    THEN CHOOSE i \in 1..Len(content) :
            /\ content[i].ch = "{"
            /\ \A j \in 1..(i - 1) : content[j].ch # "{"
    ELSE 0

\* str.rfind('}') + 1: the index, counted from 1, of the last '}'; 0 if none
JsonEnd(content) ==
    IF \E i \in 1..Len(content) : content[i].ch = "}"
    THEN CHOOSE i \in 1..Len(content) :
            /\ content[i].ch = "}"
            /\ \A j \in (i + 1)..Len(content) : content[j].ch # "}"
    ELSE 0

\* json_start >= 0 and json_end > json_start
HasJsonSpan(content) ==
    JsonStart(content) >= 1 /\ JsonEnd(content) >= JsonStart(content)

JsonContent(content) == SubSeq(content, JsonStart(content), JsonEnd(content))

\* json.loads accepts  {}  and  {"objects": [...]}
ValidJson(span) ==
    \/ Len(span) = 2 /\ span[1].ch = "{" /\ span[2].ch = "}"
    \/ Len(span) = 3 /\ span[1].ch = "{" /\ span[2].ch = "o"
                     /\ span[3].ch = "}"

JsonLoads(span) ==
    IF Len(span) = 3 THEN [objects |-> span[2].objects]
                     ELSE [objects |-> << >>]

EmptyDetection == [objects |-> << >>]

Raised == [raised |-> TRUE]

UncaughtDetectionError == Raised

\* except Exception: return {"objects": [], "error": str(e)}
CaughtDetectionError == [objects |-> << >>, error |-> TRUE]

\* int(time.time()), the clock counting tenths of a second
IntTime(t) == (t \div 10) * 10

\* detection_data['timestamp'] = ...; detection_data['source'] = 'cloud'
WithMeta(detection, timestamp) ==
    [k \in DOMAIN detection \cup {"timestamp", "source"} |->
        IF k = "timestamp" THEN IntTime(timestamp)
        ELSE IF k = "source" THEN "cloud"
        ELSE detection[k]]

\* the Lambda handler hands the whole content to json.loads and adds the
\* metadata itself
LambdaDetect(resp) ==
    IF resp.raises THEN WithMeta(CaughtDetectionError, now)
    ELSE IF ValidJson(resp.content)
         THEN WithMeta(JsonLoads(resp.content), now)
         ELSE WithMeta(CaughtDetectionError, now)

detect_objects_with_bedrock(resp) ==
    IF cl_mode = "lambda" THEN LambdaDetect(resp)
    ELSE IF resp.raises THEN CaughtDetectionError
    ELSE IF HasJsonSpan(resp.content)
         THEN IF ValidJson(JsonContent(resp.content))
              THEN JsonLoads(JsonContent(resp.content))
              ELSE EmptyDetection
         ELSE EmptyDetection

\* str.lower() on the types the model answers with
Lower(s) == IF s = "Dog" THEN "dog" ELSE s

AtLeastCloudConfidence(confidence) == confidence >= CLOUD_CONFIDENCE

AboveCloudConfidence(confidence) == confidence > CLOUD_CONFIDENCE

\* obj.get('type', '').lower() raises for a type that is not a string;
\* confidence > 0.7, evaluated for a critical type only, raises for a
\* confidence that is not a number
ObjectRaises(obj) ==
    \/ "type_is" \in DOMAIN obj
    \/ /\ "type" \in DOMAIN obj
       /\ Lower(obj.type) \in CRITICAL_TYPES
       /\ "confidence_is" \in DOMAIN obj

\* a missing type is '', a missing confidence is 0
IsCritical(obj) ==
    /\ "type" \in DOMAIN obj
    /\ Lower(obj.type) \in CRITICAL_TYPES
    /\ "confidence" \in DOMAIN obj
    /\ AboveCloudConfidence(obj.confidence)

\* critical_objects after the loop over the objects
RECURSIVE critical_objects(_)
critical_objects(objects) ==
    IF objects = << >> THEN << >>
    ELSE (IF IsCritical(Head(objects)) THEN <<Lower(Head(objects).type)>>
                                       ELSE << >>)
           \o critical_objects(Tail(objects))

ResumeCommand(objects) ==
    [command |-> "resume", reason |-> critical_objects(objects),
     timestamp |-> IntTime(now)]

\* command = {'command': 'stop', 'reason': ..., 'timestamp': int(time.time())}
StopCommand(objects) ==
    [command |-> "stop", reason |-> critical_objects(objects),
     timestamp |-> IntTime(now)]

\* one frame is extracted, its timestamp taken, and sent to the model
CloudDetect(resp) ==
    /\ cl_pc = "frame"
    /\ cl_frames < CloudFrames
    /\ cl_frames' = cl_frames + 1
    /\ cl_timestamp' = now
    /\ cl_response' = resp
    /\ cl_last' = None
    /\ cl_store' = None
    /\ IF detect_objects_with_bedrock(resp) = Raised
       THEN /\ cl_detection' = None
            /\ cl_pc' = "crashed"
       ELSE /\ cl_detection' = detect_objects_with_bedrock(resp)
            /\ cl_pc' = "store"
    /\ UNCHANGED <<cl_mode, cl_commands, cl_s3, cl_db, cl_device_id, jsonVars, notifyVars,
                   mainVars, variant, now, running, stageVars>>

\* str(uuid.uuid4()): an id no earlier call returned
Uuid4 == cl_frames

\* what the S3 and DynamoDB services do with a well-formed request
StoreOutcomes == {"ok", "s3_raises", "db_raises"}

\* boto3's DynamoDB serializer raises TypeError on a python float; every
\* confidence of the model is a float
HasFloat(detection) == detection.objects # << >>

\* the Lambda handler hands detection_data to put_item as it is, the service
\* scripts convert the floats to Decimal first
PutItemRaises(outcome) ==
    \/ outcome = "db_raises"
    \/ cl_mode = "lambda" /\ HasFloat(cl_detection)

\* except Exception as e: ... return None
CaughtStoreError == None

\* store_frame_and_detection(frame, detection_data, timestamp)
store_frame_and_detection(outcome) ==
    /\ cl_pc = "store"
    /\ LET frame_id == Uuid4
           s3_ok == outcome # "s3_raises"
           db_ok == s3_ok /\ ~PutItemRaises(outcome)
           result == IF db_ok THEN frame_id ELSE CaughtStoreError
       IN  /\ cl_s3' = IF s3_ok THEN cl_s3 \cup {frame_id} ELSE cl_s3
           /\ cl_detection' = IF s3_ok /\ cl_mode # "lambda"
                               THEN WithMeta(cl_detection, cl_timestamp)
                               ELSE cl_detection
           /\ cl_db' = IF db_ok
                        THEN cl_db \cup {[frameId |-> frame_id,
                                          timestamp |-> IntTime(cl_timestamp)]}
                        ELSE cl_db
           /\ cl_store' = [frame_id |-> result, uuid |-> frame_id,
                           outcome |-> outcome]
           /\ cl_pc' = IF cl_mode = "single" THEN "done" ELSE "command"
    /\ UNCHANGED <<cl_mode, cl_frames, cl_response, cl_last, cl_commands,
                   cl_timestamp, cl_device_id, jsonVars, notifyVars, mainVars, variant, now,
                   running, stageVars>>

\* send_command_to_edge; ok: iot_client.publish does not raise. An
\* exception in the loop over the objects reaches the except clause of the
\* function: nothing is published and False is returned.
send_command_to_edge(ok) ==
    /\ cl_pc = "command"
    /\ LET objects == cl_detection.objects
           loop_raises == \E i \in 1..Len(objects) : ObjectRaises(objects[i])
           should_stop == ~loop_raises /\ critical_objects(objects) # << >>
           command == StopCommand(cl_detection.objects)
           topic == <<IOT_TOPIC_PREFIX, "commands", cl_device_id>>
       IN  /\ cl_commands' = IF should_stop /\ ok
                             THEN Append(cl_commands,
                                         [topic |-> topic, payload |-> command])
                             ELSE cl_commands
           /\ cl_last' = [command |-> IF should_stop /\ ok THEN command
                                                         ELSE None,
                          raised |-> should_stop /\ ~ok,
                          time |-> now]
    /\ cl_pc' = IF cl_mode = "continuous" THEN "frame" ELSE "done"
    /\ UNCHANGED <<cl_mode, cl_frames, cl_response, cl_detection, cl_timestamp,
                   cl_store, cl_s3, cl_db, cl_device_id, jsonVars, notifyVars, mainVars,
                   variant, now, running, stageVars>>

\* ------------------------------------------------------ detection messages
\* Numbers are kept in thousandths. json.dumps writes a float as its decimal
\* digits, json.loads reads the digits back.
RECURSIVE Digits(_)
Digits(n) == IF n < 10 THEN <<n>> ELSE Digits(n \div 10) \o <<n % 10>>

RECURSIVE FromDigits(_)
FromDigits(ds) ==
    IF ds = << >> THEN 0
    ELSE 10 * FromDigits(SubSeq(ds, 1, Len(ds) - 1)) + ds[Len(ds)]

\* the digits after the point, without trailing zeros but at least one
FracDigits(f) ==
    IF f % 100 = 0 THEN <<f \div 100>>
    ELSE IF f % 10 = 0 THEN <<f \div 100, (f \div 10) % 10>>
    ELSE <<f \div 100, (f \div 10) % 10, f % 10>>

\* f"{x:.2f}", as the log lines print a confidence
FormatTwoDecimals(x) ==
    [t |-> "float", int |-> Digits(((x + 5) \div 10) \div 100),
     frac |-> <<(((x + 5) \div 10) % 100) \div 10, ((x + 5) \div 10) % 10>>]

\* float.__repr__, which json.dumps uses for a float
FloatRepr(x) ==
    [t |-> "float", int |-> Digits(x \div 1000), frac |-> FracDigits(x % 1000)]

IntRepr(n) == [t |-> "int", int |-> Digits(n)]

StrRepr(str) == [t |-> "str", s |-> str]

\* json.dumps of one detection dict, the keys in insertion order
DumpsDetection(d) ==
    [t |-> "obj",
     pairs |-> << <<"box", [t |-> "list",
                            items |-> [i \in 1..Len(d.box) |->
                                          FloatRepr(d.box[i])]]>>,
                  <<"class", StrRepr(d.class)>>,
                  <<"class_id", IntRepr(d.class_id)>>,
                  <<"confidence", FloatRepr(d.confidence)>> >>]

\* json.dumps(latest_detection)
json_dumps(batch) ==
    [t |-> "obj",
     pairs |-> << <<"timestamp", FloatRepr(batch.timestamp)>>,
                  <<"detections",
                    [t |-> "list",
                     items |-> [i \in 1..Len(batch.detections) |->
                                   DumpsDetection(batch.detections[i])]]>>,
                  <<"source", StrRepr(batch.source)>> >>]

\* the value json.loads gives a key: that of the key's last pair
LastPair(pairs, k) ==
    pairs[CHOOSE i \in 1..Len(pairs) :
            /\ pairs[i][1] = k
            /\ \A j \in (i + 1)..Len(pairs) : pairs[j][1] # k][2]

\* the digits after the point, as thousandths
FracValue(ds) ==
    FromDigits(ds) * (IF Len(ds) = 1 THEN 100 ELSE IF Len(ds) = 2 THEN 10
                                                                 ELSE 1)

\* json.loads
RECURSIVE json_loads(_)
json_loads(v) ==
    CASE v.t = "float" -> 1000 * FromDigits(v.int) + FracValue(v.frac)
      [] v.t = "int" -> FromDigits(v.int)
      [] v.t = "str" -> v.s
      [] v.t = "list" -> [i \in 1..Len(v.items) |-> json_loads(v.items[i])]
      [] v.t = "obj" ->
            [k \in {v.pairs[i][1] : i \in 1..Len(v.pairs)} |->
                json_loads(LastPair(v.pairs, k))]

\* model.names[cls]
Names(cls) == IF cls = 0 THEN "person" ELSE "car"

\* detections as the worker builds them: box, class, class_id, confidence
JsonDetections ==
    {[box |-> box, class |-> Names(cls), class_id |-> cls,
      confidence |-> conf] :
        box \in {<<0, 10500, 320000, 240125>>, <<1250, 0, 99990, 480000>>},
        cls \in {0, 2}, conf \in {305, 500, 1000}}

\* batches the worker can leave in latest_detection
JsonBatches ==
    {[timestamp |-> ts, detections |-> ds, source |-> "edge"] :
        ts \in {4000, 41257},
        ds \in UNION {[1..n -> JsonDetections] : n \in 0..MaxJsonDetections}}

\* a batch is ready in the headless publisher
InitJson ==
    /\ variant = "headless" /\ InitState /\ MainStarted
    /\ cl_pc = "off"
    /\ cl_mode = "continuous"
    /\ cl_frames = 0
    /\ cl_response = None
    /\ cl_detection = None
    /\ cl_last = None
    /\ cl_commands = << >>
    /\ cl_timestamp = 0
    /\ cl_store = None
    /\ cl_s3 = {}
    /\ cl_db = {}
    /\ cl_device_id = DEVICE_ID
    /\ j_batch \in JsonBatches
    /\ j_wire = None
    /\ j_payload = None
    /\ NotifyOff

\* the publisher sends the batch: client.publish(topic, json.dumps(...), 0)
PublishJson ==
    /\ j_batch # None /\ j_wire = None
    /\ j_wire' = json_dumps(j_batch)
    /\ UNCHANGED <<notifyVars, j_batch, j_payload, cl_pc, cl_mode, cl_frames, cl_response,
                   cl_detection, cl_last, cl_commands, cl_timestamp, cl_store,
                   cl_s3, cl_db, cl_device_id, mainVars, variant, now, running,
                   stageVars>>

\* mqtt_subscriber.py: payload = json.loads(message.payload.decode('utf-8'))
message_callback ==
    /\ j_wire # None /\ j_payload = None
    /\ j_payload' = json_loads(j_wire)
    /\ UNCHANGED <<notifyVars, j_batch, j_wire, cl_pc, cl_mode, cl_frames, cl_response,
                   cl_detection, cl_last, cl_commands, cl_timestamp, cl_store,
                   cl_s3, cl_db, cl_device_id, mainVars, variant, now, running,
                   stageVars>>

\* ------------------------------------------------- notification set-up
\* kvs_notification_setup_fixed.py, a CloudFormation custom resource.
\* The events it is invoked with: the request type (or none), and whether
\* ResourceProperties holds the two stream parameters
NotifyEvents ==
    [RequestType : {"Create", "Update", "Delete", "missing"},
     properties : BOOLEAN]

\* describe_stream answers with a status, or raises
StreamStatuses == {"ACTIVE", "CREATING", "raises"}

InitNotify ==
    /\ variant = "headless" /\ InitState /\ MainStarted
    /\ cl_pc = "off"
    /\ cl_mode = "continuous"
    /\ cl_frames = 0
    /\ cl_response = None
    /\ cl_detection = None
    /\ cl_last = None
    /\ cl_commands = << >>
    /\ cl_timestamp = 0
    /\ cl_store = None
    /\ cl_s3 = {}
    /\ cl_db = {}
    /\ cl_device_id = DEVICE_ID
    /\ JsonOff
    /\ ns_pc = "start"
    /\ ns_event \in NotifyEvents
    /\ retries = 0
    /\ ns_response = None
    /\ ns_checks = 0
    /\ ns_sent = << >>

\* cfnresponse.send(event, context, status, data)
Send(status) == ns_sent' = Append(ns_sent, status)

DeleteFallsThrough == FALSE

\* the return after the response to a Delete request
DeleteReturns == TRUE

\* the handler up to the wait loop: event['RequestType'], the Delete
\* request, the parameters, boto3.client('kinesisvideo'); an exception
\* reaches the except clause, which sends FAILED
NotifyBegin(client_ok) ==
    /\ ns_pc = "start"
    /\ IF ns_event.RequestType = "missing"
       THEN Send("FAILED") /\ ns_pc' = "returned"
       ELSE IF ns_event.RequestType = "Delete"
       THEN /\ Send("SUCCESS")
            /\ ns_pc' = IF DeleteReturns THEN "returned" ELSE "configure"
       ELSE IF ~ns_event.properties \/ ~client_ok
       THEN Send("FAILED") /\ ns_pc' = "returned"
       ELSE ns_pc' = "wait" /\ UNCHANGED ns_sent
    /\ retries' = 0
    /\ UNCHANGED <<ns_event, ns_response, ns_checks, cl_pc, cl_mode, cl_frames, cl_response,
                   cl_detection, cl_last, cl_commands, cl_timestamp, cl_store,
                   cl_s3, cl_db, cl_device_id, jsonVars, mainVars, variant,
                   now, running, stageVars>>

\* one iteration of "while retries < max_retries": describe_stream; ACTIVE
\* breaks out of the loop, any other status and any exception count a retry
\* and sleep 5 s; the loop is left when retries reaches max_retries
NotifyCheck(status) ==
    /\ ns_pc = "wait"
    /\ retries < max_retries
    /\ ns_checks' = ns_checks + 1
    /\ ns_response' = IF status = "raises" THEN ns_response
                                           ELSE [Status |-> status]
    /\ IF status = "ACTIVE"
       THEN /\ ns_pc' = "configure"
            /\ UNCHANGED retries
       ELSE /\ retries' = retries + 1
            /\ ns_pc' = IF retries + 1 < max_retries THEN "wait"
                                                     ELSE "configure"
    /\ UNCHANGED <<ns_event, ns_sent, cl_pc, cl_mode, cl_frames, cl_response,
                   cl_detection, cl_last, cl_commands, cl_timestamp, cl_store,
                   cl_s3, cl_db, cl_device_id, jsonVars, mainVars, variant,
                   now, running, stageVars>>

\* update_notification_configuration, then SUCCESS; when it raises, the
\* except clause sends FAILED
NotifyConfigure(ok) ==
    /\ ns_pc = "configure"
    /\ Send(IF ok THEN "SUCCESS" ELSE "FAILED")
    /\ ns_response' = IF ok THEN [ResponseMetadata |-> TRUE] ELSE ns_response
    /\ ns_pc' = "returned"
    /\ UNCHANGED <<ns_event, retries, ns_checks, cl_pc, cl_mode, cl_frames,
                   cl_response, cl_detection, cl_last, cl_commands,
                   cl_timestamp, cl_store, cl_s3, cl_db, cl_device_id,
                   jsonVars, mainVars, variant, now, running, stageVars>>

\* ---------------------------------------------------------- model outputs
\* boxes the model can return: a class inside / outside the allow-list, a
\* confidence below, at and above the threshold
Boxes == [class_id : {0, 2, 4}, confidence : {29, 30, 31}]
RawResults == UNION {[1..n -> Boxes] : n \in 0..MaxBoxes}
\* the outputs used where the content of a batch does not matter
FewResults == {<< >>, <<[class_id |-> 0, confidence |-> 31]>>}

\* ---------------------------------------------------------- specifications
CaptureNext(maxFrames) ==
    \/ CaptureRead(maxFrames)
    \/ CaptureOffer
    \/ CapturePut
    \/ CaptureDisplay
    \/ CapturePeek
    \/ \E quit \in BOOLEAN : CaptureCommands(quit)
    \/ CaptureExit

WorkerNext(outputs) ==
    \/ WorkerCheck
    \/ WorkerGet
    \/ \E results \in outputs : WorkerInfer(results)
    \/ WorkerInferRaises
    \/ WorkerExit

PublisherNext ==
    \/ \E ok \in BOOLEAN : PublisherTick(ok)
    \/ \E ok \in BOOLEAN : PublisherEmptyGet(ok)
    \/ PublisherWake
    \/ PublisherExit

\* commands: the listener callback and the display loop that reads and
\* prunes cloud_commands, with the clock
NextCmd ==
    \/ Tick(TicksCmd)
    \/ \E payload \in Payloads : command_callback(payload)
    \/ CaptureRead(FramesCmd)
    \/ CaptureOffer
    \/ CapturePut
    \/ CaptureDisplay
    \/ \E quit \in BOOLEAN : CaptureCommands(quit)
    \/ CaptureExit
    \/ KeyboardInterrupt

SpecCmd == Init /\ [][NextCmd]_vars

\* commands of any shape: the listener callback on well-formed and on
\* malformed messages, and the display loop
NextMsg ==
    \/ Tick(TicksMsg)
    \/ \E payload \in Payloads : command_callback(payload)
    \/ \E message \in MalformedMessages : command_callback_malformed(message)
    \/ CaptureRead(FramesMsg)
    \/ CaptureOffer
    \/ CapturePut
    \/ CaptureDisplay
    \/ \E quit \in BOOLEAN : CaptureCommands(quit)
    \/ CaptureExit
    \/ KeyboardInterrupt

SpecMsg == InitAll /\ [][NextMsg]_vars

\* frame buffer: the capture loop and the detection worker on frame_queue
NextBuf ==
    \/ Tick(TicksBuf)
    \/ CaptureNext(MaxFrames)
    \/ WorkerCheck
    \/ WorkerGet
    \/ WorkerInfer(<< >>)
    \/ WorkerExit
    \/ KeyboardInterrupt

SpecBuf == Init /\ [][NextBuf]_vars

\* detection channel: the worker emitting into a channel that already holds
\* batches, with the clock
NextChan ==
    \/ Tick(TicksChan)
    \/ CaptureNext(DETECTION_QUEUE_MAXSIZE + FramesChan)
    \/ WorkerNext(FewResults)
    \/ WorkerBackoffOver
    \/ KeyboardInterrupt

SpecChan == InitChan /\ [][NextChan]_vars

\* script.py: the capture loop with its display and the worker, on a frame
\* queue that already holds frames
NextScript ==
    \/ CaptureRead(FRAME_QUEUE_MAXSIZE + FramesScript)
    \/ CaptureOffer
    \/ CapturePut
    \/ CaptureDisplay
    \/ \E quit \in BOOLEAN : CaptureCommands(quit)
    \/ WorkerCheck
    \/ WorkerGet
    \/ WorkerInfer(<< >>)
    \/ WorkerExit
    \/ KeyboardInterrupt

SpecScript == InitScript /\ [][NextScript]_vars

\* detection worker with the clock: interval, inference time, error backoff
NextWork ==
    \/ Tick(TicksWork)
    \/ CaptureNext(FramesWork)
    \/ WorkerNext(FewResults)
    \/ WorkerBackoffOver
    \/ KeyboardInterrupt

SpecWork == Init /\ [][NextWork]_vars

\* detection filter: the worker on every output of the model
NextFilter ==
    \/ CaptureNext(FramesFilter)
    \/ WorkerNext(RawResults)
    \/ KeyboardInterrupt

SpecFilter == Init /\ [][NextFilter]_vars

\* telemetry: capture, worker and publisher on the detection channel
NextPub ==
    \/ Tick(TicksPub)
    \/ CaptureNext(FramesPub)
    \/ WorkerNext(FewResults)
    \/ WorkerBackoffOver
    \/ PublisherNext
    \/ KeyboardInterrupt

SpecPub == InitAll /\ [][NextPub]_vars

\* the whole script: main from its entry, the egress supervisor, and the
\* stage threads once main has started them
MainThread ==
    \/ MainBegin
    \/ \E ok \in BOOLEAN : MainInitIot(ok)
    \/ \E ok \in BOOLEAN : MainLaunch(ok)
    \/ MainProbe
    \/ MainAfterEgress
    \/ MainStartThreads
    \/ MainWait
    \/ MainCaptureReturns
    \/ MainTerminate
    \/ MainDisconnect
    \/ MainJoinBegin
    \/ MainJoinReturn

YoloThread ==
    /\ "yolo" \in started
    /\ WorkerNext({<< >>}) \/ WorkerBackoffOver

\* the capture loop: a thread of its own in the headless script, run by
\* main in the others
CaptureStage ==
    /\ IF variant = "headless" THEN "capture" \in started ELSE m_pc = "capture"
    /\ CaptureNext(FramesMain) \/ CaptureRaises

MqttThread ==
    /\ "mqtt" \in started
    /\ PublisherNext

NextMain ==
    \/ MainThread
    \/ ChildExits
    \/ YoloThread
    \/ CaptureStage
    \/ MqttThread
    \/ KeyboardInterrupt
    \/ TickShutdown

SpecMain == InitMain /\ [][NextMain]_vars

\* main and the clock keep going; the stage threads and the child process
\* may stall anywhere
SpecShutdown ==
    InitMain /\ [][NextMain]_vars /\ WF_vars(MainThread) /\ WF_vars(TickShutdown)

\* every thread and the clock keep going
SpecCancel ==
    /\ InitMain /\ [][NextMain]_vars
    /\ WF_vars(MainThread) /\ WF_vars(TickShutdown)
    /\ WF_vars(YoloThread) /\ WF_vars(CaptureStage) /\ WF_vars(MqttThread)

\* the cloud service in each of its modes, and the wall clock
NextCloud ==
    \/ Tick(TicksCloud)
    \/ \E resp \in Responses : CloudDetect(resp)
    \/ \E outcome \in StoreOutcomes : store_frame_and_detection(outcome)
    \/ \E ok \in BOOLEAN : send_command_to_edge(ok)

SpecCloud == InitCloud /\ [][NextCloud]_vars

\* answers whose JSON object holds a list with malformed entries
MixedResponses ==
    {[raises |-> FALSE,
      content |-> <<[ch |-> "{"], [ch |-> "o", objects |-> l], [ch |-> "}"]>>] :
        l \in MixedLists}

\* the cloud service on such answers, with a transport that accepts every
\* publish
NextStop ==
    \/ \E resp \in MixedResponses : CloudDetect(resp)
    \/ \E outcome \in StoreOutcomes : store_frame_and_detection(outcome)
    \/ send_command_to_edge(TRUE)

SpecStop == InitCloud /\ [][NextStop]_vars

\* one invocation of the notification-setup handler; the Lambda runtime runs
\* it to its end
NextNotify ==
    \/ \E client_ok \in BOOLEAN : NotifyBegin(client_ok)
    \/ \E status \in StreamStatuses : NotifyCheck(status)
    \/ \E ok \in BOOLEAN : NotifyConfigure(ok)

SpecNotify == InitNotify /\ [][NextNotify]_vars /\ WF_vars(NextNotify)

\* a detection batch from the publisher to the topic monitor
NextJson ==
    \/ PublishJson
    \/ message_callback

SpecJson == InitJson /\ [][NextJson]_vars

\* ------------------------------------------------------- safety commands
\* The scripts keep no mode variable: the commands in force are the entries
\* of cloud_commands, and the one place that reads them is the display loop.

\* the timestamps under which a step stored (added or replaced) a command
Written(cc, cc2) ==
    {t \in DOMAIN cc2 : t \notin DOMAIN cc \/ cc2[t] # cc[t]}

\* the stop commands the device holds
StopsStored(cc) == {t \in DOMAIN cc : cc[t].command = "stop"}

\* what the display loop honours: "stopped" while it draws a stop command
SafetyMode(cc) == IF StopsDisplayed(cc) # {} THEN "stopped" ELSE "running"

\* a command the spec's listener would accept: later than all it holds
Accepted(cc, t) == \A u \in DOMAIN cc : t > u

\* C1 (as claimed): once a stop with timestamp T is held, processing a
\* command whose timestamp is <= T leaves that stop in force, and the device
\* leaves `stopped` only by processing a resume with a timestamp > T.
C1_StickyStop ==
    [][\A T \in StopsStored(cloud_commands) :
         LET W == Written(cloud_commands, cloud_commands') IN
         /\ (W # {} /\ \A t \in W : t <= T)
               => T \in StopsStored(cloud_commands')
         /\ (W # {} /\ StopsStored(cloud_commands') = {})
               => \E t \in W : /\ cloud_commands'[t].command = "resume"
                               /\ t > T]_vars

\* C2 (as claimed): the listener stores a command only when its timestamp is
\* strictly greater than every timestamp it holds (the last-applied one); an
\* earlier or equal timestamp never overwrites or joins what is stored.
C2_StaleWriteRejected ==
    [][\A t \in Written(cloud_commands, cloud_commands') :
         Accepted(cloud_commands, t)]_vars

\* C3 (as claimed): a step that processes no command (time passing, the
\* display loop's pruning, any other stage) never removes a held stop.
C3_StopNeverAutoReverts ==
    [][Written(cloud_commands, cloud_commands') = {}
         => StopsStored(cloud_commands) \subseteq StopsStored(cloud_commands')]_vars

\* C4 (as claimed): an accepted stop makes the mode `stopped`, an accepted
\* resume makes it `running`, any other accepted command leaves it as it was
\* (stated for commands that arrive less than 3 s old, where a display loop
\* reads them).
C4_ModeFollowsCommand ==
    [][\A t \in Written(cloud_commands, cloud_commands') :
         (HasDisplay /\ IsRecent(t) /\ Accepted(cloud_commands, t)) =>
            LET c == cloud_commands'[t].command IN
            /\ c = "stop" => SafetyMode(cloud_commands') = "stopped"
            /\ c = "resume" => SafetyMode(cloud_commands') = "running"
            /\ c \notin {"stop", "resume"}
                  => SafetyMode(cloud_commands') = SafetyMode(cloud_commands)]_vars

\* ------------------------------------------------------------ frame buffer
IsPrefix(a, b) == Len(a) <= Len(b) /\ \A i \in 1..Len(a) : a[i] = b[i]

\* C5: frame_queue never holds more than FRAME_QUEUE_MAXSIZE frames, and
\* the frames the worker has received are the first of the accepted frames,
\* in the order they were offered, none skipped and none twice.
C5_BoundedFifo ==
    /\ Len(frame_queue) <= FRAME_QUEUE_MAXSIZE
    /\ IsPrefix(taken, accepted)
    /\ \A i, j \in 1..Len(accepted) : i < j => accepted[i] < accepted[j]

\* a frame was dropped at a full queue and the worker has since received
\* the frames accepted before and after the drop, in order
C5_Witness ==
    /\ Len(taken) >= 2
    /\ \E i \in 1..(Len(taken) - 1) : taken[i + 1] > taken[i] + 1

\* C6: the capture loop's put never waits: whenever the loop stands at
\* frame_queue.put the queue has room, and a frame refused at a full queue
\* is discarded with the loop on its way to the next read.
C6_OfferNeverBlocks ==
    /\ c_pc = "put" => Len(frame_queue) < FRAME_QUEUE_MAXSIZE
    /\ c_pc \in {"read", "display", "peek", "commands"} => c_frame = None

\* the queue is full, the frame just read was dropped, and the loop is back
\* at its read with the worker in the middle of an inference
C6_Witness ==
    /\ Len(frame_queue) = FRAME_QUEUE_MAXSIZE
    /\ frame_count > Len(accepted)
    /\ c_pc = "read"
    /\ running
    /\ w_pc = "infer"

\* -------------------------------------------------------- detection worker
\* C7 (as claimed): two consecutive batches are never emitted less than
\* YOLO_PROCESSING_INTERVAL apart (stated for the variants that have the
\* interval).
C7_EmissionsApart ==
    (HasInterval /\ emitted # None /\ emitted.prev # None)
        => emitted.time - emitted.prev.time >= YOLO_PROCESSING_INTERVAL

\* C7 (amended): in the variants that have the interval, the loop passes
\* (current_time) that produced two consecutive batches are at least
\* YOLO_PROCESSING_INTERVAL apart.
C7_StartsApart ==
    (HasInterval /\ emitted # None /\ emitted.prev # None)
        => emitted.start - emitted.prev.start >= YOLO_PROCESSING_INTERVAL

\* a slow inference followed by a fast one: the two batches left the worker
\* less than the interval apart although their passes began an interval apart
C7_Witness ==
    /\ HasInterval
    /\ emitted # None
    /\ emitted.prev # None
    /\ emitted.time - emitted.prev.time < YOLO_PROCESSING_INTERVAL
    /\ emitted.start - emitted.prev.start >= YOLO_PROCESSING_INTERVAL

\* indices of the raw detections that pass the filter, and the k-th of them
Passing(results) ==
    {i \in 1..Len(results) :
        /\ \E c \in CLASSES_OF_INTEREST : results[i].class_id = c
        /\ ~(results[i].confidence <= CONFIDENCE_THRESHOLD)}

Kth(S, k) == CHOOSE i \in S : Cardinality({j \in S : j < i}) = k - 1

\* C8: the batch emitted for a frame holds exactly the raw detections whose
\* class is in CLASSES_OF_INTEREST and whose confidence is strictly above
\* CONFIDENCE_THRESHOLD, in the order the model returned them.
C8_FilterExact ==
    emitted # None =>
        LET d == emitted.batch.detections
            P == Passing(w_results)
        IN  /\ Len(d) = Cardinality(P)
            /\ \A k \in 1..Len(d) : d[k] = w_results[Kth(P, k)]

\* three raw detections, the middle one at exactly the threshold: the batch
\* holds the first and the third, in that order
C8_Witness ==
    /\ emitted # None
    /\ w_results = <<[class_id |-> 2, confidence |-> 31],
                     [class_id |-> 0, confidence |-> 30],
                     [class_id |-> 0, confidence |-> 31]>>
    /\ emitted.batch.detections = <<[class_id |-> 2, confidence |-> 31],
                                    [class_id |-> 0, confidence |-> 31]>>

\* C9: an inference error does not end the worker: the worker thread has
\* ended only if running was cleared, and while it backs off it holds the
\* wake-up time of a sleep of ERROR_BACKOFF.
C9_WorkerSurvivesError ==
    /\ w_pc = "done" => ~running
    /\ w_pc = "backoff" => (w_wake <= now + ERROR_BACKOFF /\ w_wake > 0)

\* an inference failed, the worker slept, and it has since emitted the batch
\* of a frame captured after the failure
C9_Witness ==
    /\ running
    /\ w_wake > 0
    /\ w_pc = "loop"
    /\ emitted # None
    /\ emitted.batch.timestamp > w_wake - ERROR_BACKOFF
    /\ emitted.start >= w_wake

\* ----------------------------------------------------- telemetry publisher
\* C10 (as claimed): a publisher pass that found the detection channel empty
\* causes no publish.
C10_EmptyTickPublishesNothing ==
    [][p_pc = "empty_get" => published' = published]_vars

\* C11: a client.publish that raises does not end the publisher: its thread
\* has ended only if running was cleared, and after a failure it is asleep
\* or back in its loop.
C11_PublisherSurvivesError ==
    /\ p_pc = "done" => ~running
    /\ (publish_failed > 0 /\ running) => p_pc \in {"sleep", "loop", "empty_get"}

\* a publish raised, and a batch made from a frame captured after that
\* failure has since been published
C11_Witness ==
    /\ running
    /\ publish_failed > 0
    /\ \E i \in 1..Len(published) :
          /\ published[i].time > publish_failed
          /\ published[i].data.timestamp > publish_failed

\* C12 (as claimed): no batch is published twice: the publishes on the
\* detection topic are of batches made from pairwise different frames.
C12_BatchPublishedOnce ==
    \A i, j \in 1..Len(published) :
        i < j => published[i].frame # published[j].frame

\* ----------------------------------------------------- start-up, shutdown
\* C13: the egress strategies are launched in their configured order, a
\* strategy is launched only after every earlier one was found exited at its
\* probe, and the process returned is that of the first strategy found alive
\* at its probe; with two strategies, the first exited and the second alive,
\* the result is strategy 2.
C13_EgressFallbackOrder ==
    /\ Len(kvs_launched) <= Strategies
    /\ \A i \in 1..Len(kvs_launched) : kvs_launched[i] = i
    /\ \A i \in 1..(Len(kvs_launched) - 1) :
          i <= Len(kvs_probed) /\ kvs_probed[i] = FALSE
    /\ kvs_process # 0 =>
          /\ kvs_process = Len(kvs_launched)
          /\ Len(kvs_probed) = kvs_process
          /\ kvs_probed[kvs_process] = TRUE
    /\ (variant = "optimized" /\ kvs_probed = <<FALSE, TRUE>>) => kvs_process = 2

\* two strategies, the first exited by its probe, the second alive at its
\* probe: main has gone on with the process of strategy 2
C13_Witness ==
    /\ variant = "optimized"
    /\ kvs_launched = <<1, 2>>
    /\ kvs_probed = <<FALSE, TRUE>>
    /\ kvs_process = 2
    /\ m_pc = "capture"

\* every strategy of the script was launched and found exited at its probe
EgressFailed ==
    /\ kvs_process = 0
    /\ Len(kvs_probed) = Strategies
    /\ \A i \in 1..Len(kvs_probed) : kvs_probed[i] = FALSE

\* C14 (as claimed): once every egress strategy has exited at its probe and
\* main has seen the result, no stage is running or started: main does not
\* go on to start threads or to capture, and no started thread is alive.
C14_NoPartialPipeline ==
    (EgressFailed /\ m_pc # "kvs_done") =>
        /\ m_pc \notin {"start_threads", "capture", "wait"}
        /\ \A t \in started : ThreadDone(t)

\* C15 (as claimed): when main leaves on a start-up failure, what it had
\* started is shut down: the transport is not left connected, no egress
\* child is left running, no started thread is left alive.
C15_OrderlyShutdownOnFatal ==
    m_pc = "exited" =>
        /\ iot # "connected"
        /\ kvs_alive = {}
        /\ \A t \in started : ThreadDone(t)

\* C16: once main has begun its shutdown it reaches "Shutdown complete",
\* whatever the stage threads and the child process do.
C16_ShutdownCompletes == (m_pc = "cleanup") ~> (m_pc = "complete")

\* shutdown is complete although the worker is still inside an inference,
\* the publisher is still waiting on the empty queue and the terminated
\* child has not exited
C16_Witness ==
    /\ m_pc = "complete"
    /\ w_pc = "infer"
    /\ p_pc = "empty_get"
    /\ kvs_terminated
    /\ kvs_alive # {}
    /\ m_join = 2

\* C17 (as claimed): after running is cleared every started stage thread
\* comes to its end.
C17_StagesExitAfterCancel ==
    (~running) ~> (\A t \in started : ThreadDone(t))

\* ------------------------------------------------------------ cloud service
\* the current frame has been through the whole cycle
Processed ==
    /\ cl_detection # None
    /\ cl_pc \in {"frame", "done"}

\* indices of the objects with a critical type and confidence above 0.7
Critical(objects) ==
    {i \in 1..Len(objects) :
        /\ Lower(objects[i].type) \in CRITICAL_TYPES
        /\ objects[i].confidence > CLOUD_CONFIDENCE}

CriticalKth(objects, k) ==
    CHOOSE i \in Critical(objects) :
        Cardinality({j \in Critical(objects) : j <= i}) = k

\* the reason names the critical objects' types, in the order of the list
ReasonLists(reason, objects) ==
    /\ Len(reason) = Cardinality(Critical(objects))
    /\ \A k \in 1..Len(reason) :
          reason[k] = Lower(objects[CriticalKth(objects, k)].type)

StopSent == cl_last # None /\ cl_last.command # None

PublishRaised == cl_last # None /\ cl_last.raised

ObjectAt(content, k) ==
    /\ content[k].ch = "o"
    /\ content[k - 1].ch = "{"
    /\ content[k + 1].ch = "}"

\* C19: when the model's answer is arbitrary text, then one JSON object, then
\* arbitrary text, the detection result is that object's detection list,
\* unchanged; for a list of one person above the threshold a stop command
\* whose reason names the person follows.
C19_TolerantParsing ==
    (cl_detection # None /\ ~cl_response.raises) =>
        \A k \in 2..(Len(cl_response.content) - 1) :
            ObjectAt(cl_response.content, k) =>
                /\ cl_detection.objects = cl_response.content[k].objects
                /\ ( /\ cl_response.content[k].objects
                           = <<[type |-> "person", confidence |-> 71]>>
                     /\ cl_last # None
                     /\ ~cl_last.raised )
                      => /\ StopSent
                         /\ cl_last.command.reason = <<"person">>

\* no '{' with a '}' at or after it
NoJsonSpan(c) ==
    ~\E i, j \in 1..Len(c) : i <= j /\ c[i].ch = "{" /\ c[j].ch = "}"

\* the text from the first '{' to the last '}' is not a JSON object
InvalidJsonSpan(c) ==
    \E i, j \in 1..Len(c) :
        /\ i < j /\ c[i].ch = "{" /\ c[j].ch = "}"
        /\ \A h \in 1..(i - 1) : c[h].ch # "{"
        /\ \A h \in (j + 1)..Len(c) : c[h].ch # "}"
        /\ ~(j = i + 1 \/ (j = i + 2 /\ c[i + 1].ch = "o"))

BadResponse(resp) ==
    \/ resp.raises
    \/ NoJsonSpan(resp.content)
    \/ InvalidJsonSpan(resp.content)

\* C20: when the answer has no {...} span, or the span is not valid JSON, or
\* the model call raises, detection yields an empty object list instead of
\* raising, no stop command is published for that frame, and the cycle goes
\* on.
C20_BadResponseYieldsEmpty ==
    (cl_response # None /\ BadResponse(cl_response)) =>
        /\ cl_pc \in {"store", "command", "frame", "done"}
        /\ cl_detection # None
        /\ cl_detection.objects = << >>
        /\ cl_last # None => cl_last.command = None /\ ~cl_last.raised
        /\ (cl_mode = "continuous" /\ cl_last # None) => cl_pc = "frame"

\* after a frame that gave a stop, an answer that names objects but does not
\* parse has gone through the cycle without a command
C20_Witness ==
    /\ cl_response # None /\ ~cl_response.raises
    /\ BadResponse(cl_response)
    /\ \E k \in 1..Len(cl_response.content) :
          /\ cl_response.content[k].ch = "o"
          /\ Critical(cl_response.content[k].objects) # {}
    /\ cl_frames = 2 /\ cl_last # None
    /\ Len(cl_commands) = 1

\* the store step of a frame, the storage services answering normally
StoredStep ==
    /\ cl_pc = "store" /\ cl_pc' # "store"
    /\ cl_store'.outcome = "ok"

\* the frame and its record are kept under an id not used before
PersistedFresh ==
    /\ cl_store'.uuid \notin cl_s3
    /\ \A item \in cl_db : item.frameId # cl_store'.uuid
    /\ cl_store'.uuid \in cl_s3'
    /\ \E item \in cl_db' : item.frameId = cl_store'.uuid
    /\ cl_store'.frame_id = cl_store'.uuid

\* the command step decides on the objects alone
CommandStep == cl_pc = "command" /\ cl_pc' # "command"

DecidedOnObjects ==
    (cl_last'.command # None \/ cl_last'.raised)
        <=> Critical(cl_detection.objects) # {}

\* C21: every frame the cloud service processes, in any mode, is persisted
\* with its detection record under a freshly generated frame id, whether or
\* not a stop command follows, and whether a command is issued does not
\* depend on how the persistence went.
C21_PersistsEveryFrame ==
    [][ /\ StoredStep => PersistedFresh
        /\ CommandStep => DecidedOnObjects ]_vars

\* C22: every command the cloud service publishes for the edge device goes
\* to the topic the edge command listener subscribed to (same prefix, same
\* device id), so that the listener receives it.
C22_TopicAgreement ==
    \A i \in 1..Len(cl_commands) : cl_commands[i].topic = command_topic

\* ------------------------------------------------------ egress supervisor
\* C23: every launch of an egress strategy's child process, fallback launches
\* included, gets credentials resolved afresh after the previous launch.
C23_CredentialsFreshPerLaunch ==
    \A k \in 1..Len(kvs_env) :
        /\ kvs_env[k] >= 1
        /\ k > 1 => kvs_env[k] > kvs_env[k - 1]

\* ------------------------------------------------------- safety commands
\* C24: the stored commands are changed only by the command listener's
\* callback; no step of any other stage adds, replaces or removes an entry.
C24_SingleWriter ==
    [][cloud_commands' # cloud_commands
         => \E payload \in Payloads : command_callback(payload)]_vars

\* ------------------------------------------------------ detection messages
\* C25: a detection batch (timestamp, ordered detections with box, class,
\* class_id and confidence, source = edge) serialized by the publisher and
\* deserialized by a subscriber equals the original, with the same
\* detections in the same order.
C25_JsonRoundTrip ==
    j_payload # None =>
        /\ j_payload = j_batch
        /\ j_payload.source = "edge"
        /\ Len(j_payload.detections) = Len(j_batch.detections)
        /\ \A i \in 1..Len(j_batch.detections) :
              j_payload.detections[i] = j_batch.detections[i]

\* two different detections, one with a confidence of three decimals, have
\* gone through the topic
C25_Witness ==
    /\ j_payload # None
    /\ Len(j_batch.detections) = 2
    /\ j_batch.detections[1] # j_batch.detections[2]
    /\ j_batch.detections[1].confidence = 305
    /\ j_batch.timestamp = 41257

\* -------------------------------------------------------- detection worker
\* the worker ends an inference that raised nothing
InferredStep == w_pc = "infer" /\ w_pc' \notin {"infer", "backoff", "done"}

\* the batch made in this step, as the channel holds it
OfferedItem == [frame |-> w_frame.seq, data |-> emitted'.batch]

\* C26: for every frame the worker dequeues and infers without error, one
\* batch with that frame's capture timestamp is offered to the detection
\* channel, and the worker is not held up: a channel at capacity drops the
\* batch.
C26_OneBatchPerFrame ==
    [][InferredStep =>
         /\ w_pc' = "loop"
         /\ emitted'.frame = w_frame.seq
         /\ emitted'.batch.timestamp = w_frame.timestamp
         /\ emitted'.batch.source = "edge"
         /\ IF variant = "headless"
            THEN /\ latest_detection' = emitted'.batch
                 /\ detection_queue' = detection_queue
            ELSE /\ latest_detection' = latest_detection
                 /\ IF /\ variant \in {"videofile", "optimized"}
                       /\ Len(detection_queue) >= DETECTION_QUEUE_MAXSIZE
                    THEN detection_queue' = detection_queue
                    ELSE detection_queue'
                            = Append(detection_queue, OfferedItem)
         /\ Len(detection_queue') <= Len(detection_queue) + 1 ]_vars

\* a batch was made while the bounded channel was at capacity, and is not
\* in it; the worker has gone on
C26_Witness ==
    /\ variant \in {"videofile", "optimized"}
    /\ emitted # None
    /\ Len(detection_queue) = DETECTION_QUEUE_MAXSIZE
    /\ \A k \in 1..Len(detection_queue) :
          detection_queue[k].frame # emitted.frame
    /\ w_pc = "loop"

\* ----------------------------------------------------- telemetry publisher
\* C27: the capture timestamps of successively published batches never
\* decrease: no batch is published after a batch of a later frame.
C27_PublishedInCaptureOrder ==
    \A i, j \in 1..Len(published) :
        i < j =>
            /\ published[i].data.timestamp <= published[j].data.timestamp
            /\ published[i].frame <= published[j].frame

\* two batches of frames captured at different times have been published
C27_Witness ==
    /\ Len(published) >= 2
    /\ published[1].data.timestamp < published[2].data.timestamp
    /\ published[1].frame < published[2].frame

\* C28: any two consecutive publishes of detection batches are at least
\* MQTT_PUBLISH_INTERVAL apart, also when a batch arrives after the channel
\* was found empty at a due tick.
C28_PublishesApart ==
    \A i \in 1..(Len(published) - 1) :
        published[i + 1].time - published[i].time >= MQTT_PUBLISH_INTERVAL

\* ----------------------------------------------------- start-up, shutdown
\* main has returned
MainEnded == m_pc \in {"exited", "complete", "interrupted"}

\* C29: on every path by which main ends after the egress child process was
\* started, the child was sent a terminate signal before the end.
C29_ChildSignalledOnExit ==
    (MainEnded /\ kvs_process # 0) => kvs_terminated

\* a step that signals the egress child
ChildSignalled == kvs_terminated' # kvs_terminated

\* a step that launches an egress child
ChildLaunched == Len(kvs_launched') > Len(kvs_launched)

\* a launch or a signal happens only inside the supervisor: the launch in
\* start_kvs_producer with no child alive and every earlier probe failed,
\* the signal in main's shutdown on the child that start_kvs_producer
\* returned
SupervisedStep ==
    /\ ChildLaunched =>
          (/\ m_pc = "kvs_launch"
           /\ kvs_alive = {}
           /\ Len(kvs_probed) = Len(kvs_launched)
           /\ \A i \in 1..Len(kvs_probed) : kvs_probed[i] = FALSE)
    /\ ChildSignalled => (m_pc = "cleanup" /\ kvs_process # 0)

\* C30: at most one launched egress child is alive at any time; a strategy
\* after the first is launched only when the probe of the previous one found
\* it exited, and no child is alive at that launch; only start_kvs_producer
\* and main's shutdown act on the child: launches happen inside
\* start_kvs_producer, the only signal is the terminate of main's shutdown.
C30_OneChildOneOwner ==
    [](Cardinality(kvs_alive) <= 1) /\ [][SupervisedStep]_vars

\* the third strategy of headless.py is running after the first two were
\* launched and found exited
C30_Witness ==
    /\ kvs_launched = <<1, 2, 3>>
    /\ kvs_probed = <<FALSE, FALSE, TRUE>>
    /\ kvs_alive = {3}
    /\ kvs_process = 3

\* a step of start_kvs_producer that gives up: the launch raised and None
\* is returned
LaunchGivesUp ==
    /\ m_pc = "kvs_launch"
    /\ m_pc' = "kvs_done"
    /\ kvs_process' = 0

\* C31 (as claimed): a strategy whose launch raises counts as a failed
\* strategy: the remaining strategies are still tried, so the supervisor gives
\* up on a launch only when the strategy being launched is the last one.
C31_SpawnFailureFallsBack ==
    [][LaunchGivesUp => Len(kvs_launched) + 1 = Strategies]_vars

\* ------------------------------------------------------------ display peek
\* the step in which list(detection_queue.queue)[0] raises IndexError and the
\* loop's except clause clears running
PeekFails ==
    /\ c_pc = "peek"
    /\ detection_queue = << >>
    /\ c_pc' = "done"
    /\ ~running'
    /\ m_pc' = m_pc

\* C32 (as claimed): in the variants whose display loop peeks at the head of
\* the detection queue after finding it non-empty, the peek never fails,
\* whatever the publisher does in between, and so never clears running.
C32_PeekNeverFails == [][~PeekFails]_vars

\* -------------------------------------------------------- malformed commands
\* the step in which the display loop raises on a stored command whose key
\* is not a number, and its except clause clears running and ends the loop
CommandEndsLoop ==
    /\ c_pc = "commands"
    /\ cc_other # {}
    /\ running
    /\ ~running'
    /\ c_pc' = "done"
    /\ m_pc' = m_pc

\* a step of the command callback
CommandReceived ==
    \/ \E payload \in Payloads : command_callback(payload)
    \/ \E message \in MalformedMessages : command_callback_malformed(message)

\* C33 (as claimed): no command message, whatever its payload, clears the
\* running flag or ends a stage loop: neither the callback's own step nor the
\* later handling of what it stored does.
C33_BadCommandHarmless ==
    [][/\ CommandReceived => (running' = running /\ c_pc' = c_pc)
       /\ ~CommandEndsLoop]_vars

\* a step of the callback on a message that is not JSON
UndecodableReceived ==
    command_callback_malformed([kind |-> "not_json", command |-> "stop"])

\* C34: a command message that cannot be decoded as JSON is absorbed by the
\* callback: the stored commands are what they were before the message,
\* nothing else of the edge process changes, the transport stays connected
\* with its subscription, and a decodable command that arrives afterwards is
\* stored as usual.
C34_DecodeErrorAbsorbed ==
    [][/\ UndecodableReceived =>
             /\ cloud_commands' = cloud_commands
             /\ cc_other' = cc_other
             /\ running' = running
             /\ iot' = iot
       /\ \A payload \in Payloads :
             (cc_errors > 0 /\ command_callback(payload)) =>
                 /\ payload.timestamp \in DOMAIN cloud_commands'
                 /\ cloud_commands'[payload.timestamp] = payload]_vars

\* an undecodable message was received and an error printed; a stop command
\* is stored and the pipeline is running
C34_Witness ==
    /\ cc_errors > 0
    /\ \E t \in DOMAIN cloud_commands : cloud_commands[t].command = "stop"
    /\ cc_other = {}
    /\ running
    /\ iot = "connected"

\* ------------------------------------------------------------- stop policy
\* an object as the prompt asks for, of a critical type, confidence > 0.7
WellFormedCritical(obj) ==
    /\ DOMAIN obj = {"type", "confidence"}
    /\ Lower(obj.type) \in CRITICAL_TYPES
    /\ obj.confidence > CLOUD_CONFIDENCE

\* a step of send_command_to_edge
CommandDecided == cl_pc = "command" /\ cl_pc' # "command"

\* C35 (as claimed): when the object list holds at least one well-formed
\* object of a critical type with confidence > 0.7, send_command_to_edge
\* publishes a stop, wherever that object stands in the list and whatever
\* the other entries are.
C35_StopDespiteMalformed ==
    [][(/\ CommandDecided
        /\ \E i \in 1..Len(cl_detection.objects) :
              WellFormedCritical(cl_detection.objects[i]))
       => /\ Len(cl_commands') = Len(cl_commands) + 1
          /\ cl_commands'[Len(cl_commands')].payload.command = "stop"]_vars

\* C36: every command the cloud service has published is a stop: it never
\* publishes a resume (or any other command), whatever the model answered.
C36_CloudOnlyStops ==
    \A i \in 1..Len(cl_commands) : cl_commands[i].payload.command = "stop"

\* the continuous service has published for two frames in a row
C36_Witness ==
    /\ cl_mode = "continuous"
    /\ Len(cl_commands) = 2
    /\ cl_frames = 2

\* ------------------------------------------------------- unbounded channel
\* the frame the worker has taken and not yet turned into a batch
InFlight == IF w_pc = "infer" THEN 1 ELSE 0

InPipeline == Len(frame_queue) + InFlight + Len(detection_queue)

\* C37: in script.py the frames in frame_queue, the frame in flight in the
\* worker and the batches in detection_queue are together never more than
\* N + 2 (N the capacity of frame_queue), so the detection queue, created
\* without a capacity, never holds more than N + 2 batches.
C37_UnboundedQueueStaysBounded ==
    variant = "script" =>
        /\ InPipeline <= FRAME_QUEUE_MAXSIZE + 2
        /\ Len(detection_queue) <= FRAME_QUEUE_MAXSIZE + 2

\* the bound is met: a full frame queue, a frame in flight and a batch
\* waiting for the display
C37_Witness ==
    /\ variant = "script"
    /\ frame_count > FRAME_QUEUE_MAXSIZE + 2
    /\ InPipeline = FRAME_QUEUE_MAXSIZE + 2
    /\ detection_queue # << >>

\* ------------------------------------------------------------ worker's get
\* C38: the worker is the only consumer of frame_queue, so the frame it saw
\* when it found the queue non-empty is still there when it calls get,
\* whatever the capture stage did in between: its get never waits.
C38_WorkerGetNeverBlocks == w_pc = "get" => frame_queue # << >>

\* the worker is about to call get while the capture stage is about to put
\* another frame behind the one the worker saw
C38_Witness ==
    /\ w_pc = "get"
    /\ c_pc = "put"
    /\ Len(frame_queue) >= 1
    /\ variant = "headless"

\* ------------------------------------------------------ command path at start
\* setup_iot_subscriptions was called on a connected client, which has not
\* been disconnected since
Subscribed == iot = "connected"

\* the capture loop is being run
CaptureActive ==
    /\ IF variant = "headless" THEN "capture" \in started
                               ELSE m_pc = "capture"
    /\ c_pc # "done"

\* the detection thread is being run
WorkerActive == "yolo" \in started /\ w_pc # "done"

\* C39 (as claimed): while the pipeline is up (running set, capture loop and
\* detection thread being run) the command listener is subscribed to the
\* command topic.
C39_SubscribedWhileRunning ==
    (running /\ CaptureActive /\ WorkerActive) => Subscribed

\* ------------------------------------------------- notification set-up
\* C40: the notification-setup handler always returns, having sent exactly
\* one CloudFormation response, SUCCESS or FAILED, on every path (Delete,
\* configuration done, an exception, retries used up), and its wait for the
\* stream makes at most max_retries status checks, failed checks included.
C40_OneResponseBoundedWait ==
    /\ [](/\ ns_checks <= max_retries
          /\ Len(ns_sent) <= 1
          /\ ns_pc = "returned" =>
                (Len(ns_sent) = 1 /\ ns_sent[1] \in {"SUCCESS", "FAILED"}))
    /\ <>(ns_pc = "returned")

\* every status check failed or found the stream not active, the retries ran
\* out and the configuration was made all the same
C40_Witness ==
    /\ ns_pc = "returned"
    /\ ns_checks = max_retries
    /\ retries = max_retries
    /\ ns_sent = <<"SUCCESS">>

====
